---- MODULE Spec2Model ----
(***************************************************************************)
(* A model of the nearstack rtc package: the hybrid logical clock (HLC),   *)
(* the last-writer-wins map (LWWMap), the peer connection and manager, the *)
(* signaling channel and the sync engine.                                  *)
(*                                                                         *)
(* Strings that the code orders with < and > (node ids, peer ids) are      *)
(* sequences of UTF-16 code units, compared as JavaScript compares         *)
(* strings.  Keys, values and document ids are only ever tested for        *)
(* equality and are plain strings.                                         *)
(***************************************************************************)
EXTENDS Integers, Sequences, FiniteSets, TLC

VARIABLES
    cmpArgs,      \* compareTimestamps: the three timestamps under comparison
    cmpRes,       \* compareTimestamps: the results of the calls, or NoResult
    hlc,          \* one HLC instance: its time, counter and nodeId
    hlcPrev,      \* the timestamps that instance returned before its last call
    hlcLast,      \* the timestamp its last call returned, or NoResult
    hlcCalls,     \* how many calls were made on it
    hlcOp,        \* its last call: the operation and the wall-clock reading
    mapEntries,   \* one LWWMap: its entries, a function from the keys it holds
    mapClock,     \* that map's HLC
    mapListeners, \* that map's subscribed callbacks, in subscription order
    mapLast,      \* that map's last call: operation, arguments, result, the
                  \* entries and clock before it, the callbacks it invoked and
                  \* the changes a document handle hands on for it
    mapOps,       \* how many mutating calls were made on it
    repEntries,   \* two replicas: the entries of each one's LWWMap
    repClock,     \* the HLC of each replica's LWWMap
    repApplied,   \* SpecConv: the changes passed to applyRemote on each replica
    repCalls,     \* how many calls were made on each replica
    repSync,      \* the last anti-entropy pass between them, or NoResult
    engConnected, \* SyncEngine.connected of each engine
    engDocs,      \* SyncEngine.documents of each engine: document id -> entries
    engClock,     \* SyncEngine.clock of each engine, shared by its documents
    hubRoom,      \* the signaling hub: the engines registered in the room
    peers,        \* PeerManager.peers of each engine: remote id -> connection
    pending,      \* negotiations awaiting the transport: offers and answers
    chan,         \* the data channels: the messages in flight, per direction
    offersSent,   \* how many offer messages each engine has sent
    netLast,      \* the last call on a document handle, or NoResult
    netOps,       \* how many calls were made on document handles
    engHeld,      \* the documents each engine held when connect() was called
    netIn,        \* the last event an engine handled from a peer, or NoResult:
                  \* a data-channel message or a connection state change
    netFaults,    \* how many times the transport lost a connection
    life,         \* one SyncEngine through its lifecycle: connected, its
                  \* event handlers and documents, and its PeerManager's
                  \* signaling channel, room registration and peers
    lifeLog,      \* the `connected` and `disconnected` events it has emitted
    lifeCalls,    \* the connect, disconnect and dispose calls made on it
    lifeLast,     \* its last call and what the call did, or NoResult
    pmAttached,   \* one PeerManager: whether it holds a signaling channel
    pmPeers,      \* its peer map: remote id -> the connection held for it
    pmConns,      \* every PeerConnection it has created: peer and state
    pmHandling,   \* its handleOffer calls suspended at the await
    pmSent,       \* the signaling messages it has sent, in order
    pmLast,       \* the last step it took, or NoResult
    wsSocks,      \* WebSocketSignaling: every WebSocket it created, by state
    wsCur,        \* its field ws: the index of a socket, or 0 for null
    wsTimers,     \* every reconnect timer it has set: whether still pending
    wsTimerRef,   \* its field reconnectTimer: the index of a timer, or 0
    wsAttempts,   \* its field reconnectAttempts
    wsDisposed,   \* its field disposed
    wsJoined,     \* whether peerId and roomId are set
    wsCtorThrows, \* whether `new WebSocket(url)` throws for its url
    wsTries,      \* the reconnect attempts made since the last open
    wsLast,       \* the last step it took, or NoResult
    shDocs,       \* the documents of one engine: document id -> entries
    shClock,      \* the HLC that engine's documents share
    shSeen,       \* every timestamp passed to applyRemote or merge on them
    shLast,       \* the last call on one of them, or NoResult
    shOps,        \* how many calls were made on them
    pc,           \* one PeerConnection: its state, its RTCPeerConnection and
                  \* data channel with the handlers set on them
    pcLog,        \* its calls and events in order, each with the callbacks invoked
    pcSteps       \* how many calls and events it has had

cmpVars == <<cmpArgs, cmpRes>>
hlcVars == <<hlc, hlcPrev, hlcLast, hlcCalls, hlcOp>>
mapVars == <<mapEntries, mapClock, mapListeners, mapLast, mapOps>>
repVars == <<repEntries, repClock, repApplied, repCalls, repSync>>
netVars == <<engConnected, engDocs, engClock, hubRoom, peers, pending, chan,
             offersSent, netLast, netOps, engHeld, netIn, netFaults>>
lifeVars == <<life, lifeLog, lifeCalls, lifeLast>>
pmVars == <<pmAttached, pmPeers, pmConns, pmHandling, pmSent, pmLast>>
wsVars == <<wsSocks, wsCur, wsTimers, wsTimerRef, wsAttempts, wsDisposed,
            wsJoined, wsCtorThrows, wsTries, wsLast>>
shVars == <<shDocs, shClock, shSeen, shLast, shOps>>
pcVars == <<pc, pcLog, pcSteps>>
vars == <<cmpArgs, cmpRes, hlc, hlcPrev, hlcLast, hlcCalls, hlcOp,
          mapEntries, mapClock, mapListeners, mapLast, mapOps,
          repEntries, repClock, repApplied, repCalls, repSync,
          engConnected, engDocs, engClock, hubRoom, peers, pending, chan,
          offersSent, netLast, netOps, engHeld, netIn, netFaults,
          life, lifeLog, lifeCalls, lifeLast,
          pmAttached, pmPeers, pmConns, pmHandling, pmSent, pmLast,
          wsSocks, wsCur, wsTimers, wsTimerRef, wsAttempts, wsDisposed,
          wsJoined, wsCtorThrows, wsTries, wsLast,
          shDocs, shClock, shSeen, shLast, shOps, pc, pcLog, pcSteps>>

\* The value of a result variable before any call: a record no call returns.
NoResult == [none |-> TRUE]

(***************************************************************************)
(* Bounds of the model.                                                    *)
(***************************************************************************)
MaxWall == 2           \* wall-clock readings are 0..MaxWall
MaxRemoteTime == 3     \* times of remote timestamps are 0..MaxRemoteTime
MaxRemoteCounter == 2  \* counters of remote timestamps are 0..MaxRemoteCounter
MaxCalls == 4          \* calls made on the one HLC instance
MaxMapOps == 2         \* mutating calls made on the one LWWMap
MaxChanges == 2        \* size of the set S of changes two replicas receive
MaxApplies == 3        \* calls made on each of the two replicas
MaxAeOps == 3          \* calls made on the two replicas before anti-entropy
MaxNetOps == 2         \* calls made on the document handles of the engines
MaxFaults == 1         \* connections the transport loses

(***************************************************************************)
(* Node ids: "a", "ab", "b" as code units.                                 *)
(***************************************************************************)
IdA == <<97>>
IdAB == <<97, 98>>
IdB == <<98>>
NodeIds == {IdA, IdAB, IdB}

Walls == 0..MaxWall

Keys == {"k1", "k2"}
Values == {"v1", "v2"}
Listeners == {"l1", "l2"}

\* A callback that throws when it is called.
Throwers == {"t1"}

\* The one map of SpecMap is node "ab"; remote changes come from "a" and "b".
SelfId == IdAB
RemoteIds == {IdA, IdB}

\* JavaScript's s < t on strings: the first differing code unit decides, and
\* a proper prefix is the smaller.
StrLess(s, t) ==
    \E i \in 1..(Len(s) + 1) :
        /\ i <= Len(t)
        /\ \A j \in 1..(i - 1) : s[j] = t[j]
        /\ (i = Len(s) + 1 \/ s[i] < t[i])

StrGreater(s, t) == StrLess(t, s)

Timestamp(time, counter, nodeId) ==
    [time |-> time, counter |-> counter, nodeId |-> nodeId]

RemoteTimestamps ==
    {Timestamp(t, c, n) : t \in 0..MaxRemoteTime, c \in 0..MaxRemoteCounter, n \in NodeIds}

(***************************************************************************)
(* compareTimestamps (hlc.ts).                                             *)
(***************************************************************************)
compareTimestamps_ignoreNode(a, b) ==
    IF a.time # b.time THEN a.time - b.time
    ELSE IF a.counter # b.counter THEN a.counter - b.counter
    ELSE 0

compareTimestamps_nodeReversed(a, b) ==
    IF a.time # b.time THEN a.time - b.time
    ELSE IF a.counter # b.counter THEN a.counter - b.counter
    ELSE IF StrLess(a.nodeId, b.nodeId) THEN 1
    ELSE IF StrGreater(a.nodeId, b.nodeId) THEN -1
    ELSE 0

compareTimestamps(a, b) ==
    IF a.time # b.time THEN a.time - b.time
    ELSE IF a.counter # b.counter THEN a.counter - b.counter
    ELSE IF StrLess(a.nodeId, b.nodeId) THEN -1
    ELSE IF StrGreater(a.nodeId, b.nodeId) THEN 1
    ELSE 0

Sign(x) == IF x < 0 THEN -1 ELSE IF x > 0 THEN 1 ELSE 0

(***************************************************************************)
(* HLC (hlc.ts).  The clock is the record {time, counter, nodeId}; the     *)
(* timestamp a call returns is the clock after the call.                   *)
(***************************************************************************)
HLCNew(nodeId) == Timestamp(0, 0, nodeId)

Max3(x, y, z) ==
    IF x >= y /\ x >= z THEN x ELSE IF y >= z THEN y ELSE z

Max2(x, y) == IF x >= y THEN x ELSE y

HLCNow_noCounter(c, wallClock) ==
    IF wallClock > c.time
    THEN Timestamp(wallClock, 0, c.nodeId)
    ELSE Timestamp(c.time, c.counter, c.nodeId)

HLCNow(c, wallClock) ==
    IF wallClock > c.time
    THEN Timestamp(wallClock, 0, c.nodeId)
    ELSE Timestamp(c.time, c.counter + 1, c.nodeId)

HLCReceive_wallOnly(c, wallClock, remote) ==
    IF wallClock > c.time
    THEN Timestamp(wallClock, 0, c.nodeId)
    ELSE Timestamp(c.time, c.counter + 1, c.nodeId)

HLCReceive_localCounter(c, wallClock, remote) ==
    LET maxTime == Max3(wallClock, c.time, remote.time)
        counter ==
            IF maxTime = c.time THEN c.counter + 1
            ELSE IF maxTime = remote.time THEN remote.counter + 1
            ELSE 0
    IN Timestamp(maxTime, counter, c.nodeId)

HLCReceive(c, wallClock, remote) ==
    LET maxTime == Max3(wallClock, c.time, remote.time)
        counter ==
            IF maxTime = c.time /\ maxTime = remote.time
            THEN Max2(c.counter, remote.counter) + 1
            ELSE IF maxTime = c.time THEN c.counter + 1
            ELSE IF maxTime = remote.time THEN remote.counter + 1
            ELSE 0
    IN Timestamp(maxTime, counter, c.nodeId)

(***************************************************************************)
(* LWWMap (lww-map.ts).  The entries of a map are a function from the keys *)
(* it holds to {value, timestamp, deleted}.  Each operation is an operator *)
(* from the map's entries and clock (and the wall-clock reading its clock  *)
(* takes) to the entries and clock after the call, the value returned and  *)
(* the number of times notify() ran.                                       *)
(***************************************************************************)
EmptyMap == [k \in {} |-> NoResult]

\* What delete() returns for a key that is missing or already tombstoned.
Null == [null |-> TRUE]

Entry(value, timestamp, deleted) ==
    [value |-> value, timestamp |-> timestamp, deleted |-> deleted]

Change(key, value, timestamp, deleted) ==
    [key |-> key, value |-> value, timestamp |-> timestamp, deleted |-> deleted]

EntryOf(change) == Entry(change.value, change.timestamp, change.deleted)

\* Map.set(key, entry)
Put(entries, key, entry) ==
    [k \in DOMAIN entries \cup {key} |-> IF k = key THEN entry ELSE entries[k]]

Outcome(entries, clock, ret, notifies) ==
    [entries |-> entries, clock |-> clock, ret |-> ret, notifies |-> notifies]

MapSet(entries, clock, wallClock, key, value) ==
    LET timestamp == HLCNow(clock, wallClock)
    IN Outcome(Put(entries, key, Entry(value, timestamp, FALSE)), timestamp,
               Change(key, value, timestamp, FALSE), 1)

MapDelete_removes(entries, clock, wallClock, key) ==
    IF key \notin DOMAIN entries \/ entries[key].deleted
    THEN Outcome(entries, clock, Null, 0)
    ELSE LET timestamp == HLCNow(clock, wallClock)
         IN Outcome([k \in DOMAIN entries \ {key} |-> entries[k]], timestamp,
                    Change(key, entries[key].value, timestamp, TRUE), 1)

MapDelete_alwaysStamps(entries, clock, wallClock, key) ==
    LET timestamp == HLCNow(clock, wallClock)
    IN IF key \notin DOMAIN entries \/ entries[key].deleted
       THEN Outcome(entries, timestamp, Null, 0)
       ELSE Outcome(Put(entries, key, Entry(entries[key].value, timestamp, TRUE)),
                    timestamp,
                    Change(key, entries[key].value, timestamp, TRUE), 1)

MapDelete(entries, clock, wallClock, key) ==
    IF key \notin DOMAIN entries \/ entries[key].deleted
    THEN Outcome(entries, clock, Null, 0)
    ELSE LET timestamp == HLCNow(clock, wallClock)
             value == entries[key].value
         IN Outcome(Put(entries, key, Entry(value, timestamp, TRUE)), timestamp,
                    Change(key, value, timestamp, TRUE), 1)

MapGet(entries, key) ==
    IF key \notin DOMAIN entries \/ entries[key].deleted
    THEN Null
    ELSE entries[key].value

MapGetAll_withTombstones(entries) ==
    [k \in DOMAIN entries |-> entries[k].value]

\* getAll(): the value of every entry that is not deleted.
MapGetAll(entries) ==
    [k \in {x \in DOMAIN entries : ~entries[x].deleted} |-> entries[k].value]

MapGetKnownEntries(entries) ==
    [k \in DOMAIN entries |-> entries[k].timestamp]

MapApplyRemote_acceptEqual(entries, clock, wallClock, change) ==
    LET received == HLCReceive(clock, wallClock, change.timestamp)
    IN IF /\ change.key \in DOMAIN entries
          /\ compareTimestamps(entries[change.key].timestamp, change.timestamp) > 0
       THEN Outcome(entries, received, FALSE, 0)
       ELSE Outcome(Put(entries, change.key, EntryOf(change)), received, TRUE, 1)

MapApplyRemote_lastArrivalWins(entries, clock, wallClock, change) ==
    LET received == HLCReceive(clock, wallClock, change.timestamp)
    IN Outcome(Put(entries, change.key, EntryOf(change)), received, TRUE, 1)

MapApplyRemote_receiveOnAccept(entries, clock, wallClock, change) ==
    IF /\ change.key \in DOMAIN entries
       /\ compareTimestamps(entries[change.key].timestamp, change.timestamp) >= 0
    THEN Outcome(entries, clock, FALSE, 0)
    ELSE Outcome(Put(entries, change.key, EntryOf(change)),
                 HLCReceive(clock, wallClock, change.timestamp), TRUE, 1)

MapApplyRemote(entries, clock, wallClock, change) ==
    LET received == HLCReceive(clock, wallClock, change.timestamp)
    IN IF /\ change.key \in DOMAIN entries
          /\ compareTimestamps(entries[change.key].timestamp, change.timestamp) >= 0
       THEN Outcome(entries, received, FALSE, 0)
       ELSE Outcome(Put(entries, change.key, EntryOf(change)), received, TRUE, 1)

\* The loop of merge(): `order` is the order in which Object.entries yields the
\* keys of remoteEntries, `applied` the changes pushed so far.
RECURSIVE MergeLoop(_, _, _, _, _, _)
MergeLoop(entries, clock, wallClock, remoteEntries, order, applied) ==
    IF order = <<>>
    THEN Outcome(entries, clock, applied, IF Len(applied) > 0 THEN 1 ELSE 0)
    ELSE LET key == Head(order)
             remoteEntry == remoteEntries[key]
             received == HLCReceive(clock, wallClock, remoteEntry.timestamp)
         IN IF \/ key \notin DOMAIN entries
               \/ compareTimestamps(entries[key].timestamp, remoteEntry.timestamp) < 0
            THEN MergeLoop(Put(entries, key, remoteEntry), received, wallClock,
                           remoteEntries, Tail(order),
                           Append(applied, Change(key, remoteEntry.value,
                                                  remoteEntry.timestamp,
                                                  remoteEntry.deleted)))
            ELSE MergeLoop(entries, received, wallClock, remoteEntries,
                           Tail(order), applied)

MapMerge_firstOnly(entries, clock, wallClock, remoteEntries, order) ==
    MergeLoop(entries, clock, wallClock, remoteEntries,
              IF order = <<>> THEN <<>> ELSE <<Head(order)>>, <<>>)

MapMerge(entries, clock, wallClock, remoteEntries, order) ==
    MergeLoop(entries, clock, wallClock, remoteEntries, order, <<>>)

MapDiffFrom_skipsTombstones(entries, remoteKnown) ==
    [k \in {x \in DOMAIN entries :
               /\ ~entries[x].deleted
               /\ \/ x \notin DOMAIN remoteKnown
                  \/ compareTimestamps(entries[x].timestamp, remoteKnown[x]) > 0}
        |-> entries[k]]

MapDiffFrom_onlyStale(entries, remoteKnown) ==
    [k \in {x \in DOMAIN entries :
               /\ x \in DOMAIN remoteKnown
               /\ compareTimestamps(entries[x].timestamp, remoteKnown[x]) > 0}
        |-> entries[k]]

MapDiffFrom(entries, remoteKnown) ==
    [k \in {x \in DOMAIN entries :
               \/ x \notin DOMAIN remoteKnown
               \/ compareTimestamps(entries[x].timestamp, remoteKnown[x]) > 0}
        |-> entries[k]]

MapToState_liveOnly(entries) ==
    [entries |-> [k \in {x \in DOMAIN entries : ~entries[x].deleted} |-> entries[k]]]

\* toState(): the snapshot {entries}, every entry copied under its key.
MapToState(entries) == [entries |-> [k \in DOMAIN entries |-> entries[k]]]

\* fromState(state) is merge(state.entries).
MapFromState(entries, clock, wallClock, state, order) ==
    MapMerge(entries, clock, wallClock, state.entries, order)

\* SyncDocumentHandle.set and delete over a map whose operation came out as
\* `out`: the changes passed to onLocalChange, none when delete returned null.
LocalChanges(out) == IF out.ret = Null THEN <<>> ELSE <<out.ret>>

\* The orders in which the keys of a record can be enumerated.
Orders(S) ==
    {o \in [1..Cardinality(S) -> S] : \A i, j \in 1..Cardinality(S) : o[i] = o[j] => i = j}

Range(seq) == {seq[i] : i \in DOMAIN seq}

\* Set.delete(callback) on the listeners, which keep their insertion order.
Without(listeners, l) ==
    LET kept == {i \in DOMAIN listeners : listeners[i] # l}
        rank(i) == Cardinality({j \in kept : j <= i})
    IN [n \in 1..Cardinality(kept) |-> listeners[CHOOSE i \in kept : rank(i) = n]]

\* The loop of notify(): the callbacks run in subscription order, and the
\* first that throws ends the loop and the call that notified.
RECURSIVE NotifyLoop(_, _)
NotifyLoop(listeners, called) ==
    IF listeners = <<>> THEN [called |-> called, threw |-> FALSE]
    ELSE IF Head(listeners) \in Throwers
    THEN [called |-> called \cup {Head(listeners)}, threw |-> TRUE]
    ELSE NotifyLoop(Tail(listeners), called \cup {Head(listeners)})

\* How often each subscribed callback ran in a call that reached notify()
\* `notifies` times (0 or 1).
Invocations(listeners, notifies) ==
    [l \in Range(listeners) |->
        IF notifies > 0 /\ l \in NotifyLoop(listeners, {}).called THEN 1 ELSE 0]

\* Whether the call ended with the exception of a callback.
Threw(listeners, notifies) == notifies > 0 /\ NotifyLoop(listeners, {}).threw

(***************************************************************************)
(* Idle values: what a specification gives the variables it does not use.  *)
(***************************************************************************)
CmpIdle == cmpArgs = <<>> /\ cmpRes = NoResult
HlcIdle ==
    /\ hlc = NoResult
    /\ hlcPrev = {}
    /\ hlcLast = NoResult
    /\ hlcCalls = 0
    /\ hlcOp = NoResult
MapIdle ==
    /\ mapEntries = <<>>
    /\ mapClock = NoResult
    /\ mapListeners = {}
    /\ mapLast = NoResult
    /\ mapOps = 0
RepIdle ==
    /\ repEntries = <<>>
    /\ repClock = <<>>
    /\ repApplied = <<>>
    /\ repCalls = <<>>
    /\ repSync = NoResult
NetIdle ==
    /\ engConnected = <<>>
    /\ engDocs = <<>>
    /\ engClock = <<>>
    /\ hubRoom = {}
    /\ peers = <<>>
    /\ pending = {}
    /\ chan = <<>>
    /\ offersSent = <<>>
    /\ netLast = NoResult
    /\ netOps = 0
    /\ engHeld = <<>>
    /\ netIn = NoResult
    /\ netFaults = 0

LifeIdle ==
    /\ life = NoResult
    /\ lifeLog = <<>>
    /\ lifeCalls = <<>>
    /\ lifeLast = NoResult

PmIdle ==
    /\ pmAttached = FALSE
    /\ pmPeers = <<>>
    /\ pmConns = <<>>
    /\ pmHandling = {}
    /\ pmSent = <<>>
    /\ pmLast = NoResult

WsIdle ==
    /\ wsSocks = <<>>
    /\ wsCur = 0
    /\ wsTimers = <<>>
    /\ wsTimerRef = 0
    /\ wsAttempts = 0
    /\ wsDisposed = FALSE
    /\ wsJoined = FALSE
    /\ wsCtorThrows = FALSE
    /\ wsTries = 0
    /\ wsLast = NoResult

ShIdle ==
    /\ shDocs = <<>>
    /\ shClock = NoResult
    /\ shSeen = {}
    /\ shLast = NoResult
    /\ shOps = 0

PcIdle ==
    /\ pc = NoResult
    /\ pcLog = <<>>
    /\ pcSteps = 0

(***************************************************************************)
(* SpecCmp: compareTimestamps applied to three timestamps.                 *)
(***************************************************************************)
CmpInit ==
    /\ cmpArgs \in RemoteTimestamps \X RemoteTimestamps \X RemoteTimestamps
    /\ cmpRes = NoResult
    /\ HlcIdle
    /\ MapIdle
    /\ RepIdle
    /\ NetIdle
    /\ LifeIdle
    /\ PmIdle
    /\ WsIdle
    /\ ShIdle
    /\ PcIdle

Compare ==
    /\ cmpRes = NoResult
    /\ cmpRes' = [ab |-> compareTimestamps(cmpArgs[1], cmpArgs[2]),
                  ba |-> compareTimestamps(cmpArgs[2], cmpArgs[1]),
                  bc |-> compareTimestamps(cmpArgs[2], cmpArgs[3]),
                  ac |-> compareTimestamps(cmpArgs[1], cmpArgs[3])]
    /\ UNCHANGED <<cmpArgs, hlcVars, mapVars, repVars, netVars, lifeVars, pmVars, wsVars, shVars, pcVars>>

CmpNext == Compare

SpecCmp == CmpInit /\ [][CmpNext]_vars

(***************************************************************************)
(* SpecHLC: any sequence of now() and receive() on one HLC instance, under *)
(* any wall-clock readings.                                                *)
(***************************************************************************)
HlcInit ==
    /\ hlc \in {HLCNew(n) : n \in NodeIds}
    /\ hlcPrev = {}
    /\ hlcLast = NoResult
    /\ hlcCalls = 0
    /\ hlcOp = NoResult
    /\ CmpIdle
    /\ MapIdle
    /\ RepIdle
    /\ NetIdle
    /\ LifeIdle
    /\ PmIdle
    /\ WsIdle
    /\ ShIdle
    /\ PcIdle

HlcReturn(op, wallClock, ts) ==
    /\ hlcCalls < MaxCalls
    /\ hlc' = ts
    /\ hlcPrev' = IF hlcLast = NoResult THEN {} ELSE hlcPrev \cup {hlcLast}
    /\ hlcLast' = ts
    /\ hlcCalls' = hlcCalls + 1
    /\ hlcOp' = [op |-> op, wallClock |-> wallClock, before |-> hlc]
    /\ UNCHANGED <<cmpVars, mapVars, repVars, netVars, lifeVars, pmVars, wsVars, shVars, pcVars>>

Now == \E wallClock \in Walls : HlcReturn("now", wallClock, HLCNow(hlc, wallClock))

Receive ==
    \E wallClock \in Walls, remote \in RemoteTimestamps :
        HlcReturn("receive", wallClock, HLCReceive(hlc, wallClock, remote))

HlcNext == Now \/ Receive

SpecHLC == HlcInit /\ [][HlcNext]_vars

(***************************************************************************)
(* SpecRef: one HLC through a few calls of now() and receive(remote), with *)
(* the wall clock standing still, advancing or behind, and with remote     *)
(* timestamps behind, level with and ahead of the clock.  Every call is    *)
(* kept with its wall-clock reading, its argument and the call before it.  *)
(***************************************************************************)
MaxRefCalls == 3
RefNodes == {IdA, IdB}
RefWalls == {0, 1, 2}
RefRemotes ==
    {Timestamp(t, c, IdAB) : t \in {0, 1, 2}, c \in {0, 2}}

RefInit ==
    /\ hlc \in {HLCNew(n) : n \in RefNodes}
    /\ hlcPrev = {}
    /\ hlcLast = NoResult
    /\ hlcCalls = 0
    /\ hlcOp = NoResult
    /\ CmpIdle
    /\ MapIdle
    /\ RepIdle
    /\ NetIdle
    /\ LifeIdle
    /\ PmIdle
    /\ WsIdle
    /\ ShIdle
    /\ PcIdle

RefReturn(op, wallClock, remote, ts) ==
    /\ hlcCalls < MaxRefCalls
    /\ hlc' = ts
    /\ hlcPrev' = IF hlcLast = NoResult THEN {} ELSE hlcPrev \cup {hlcLast}
    /\ hlcLast' = ts
    /\ hlcCalls' = hlcCalls + 1
    /\ hlcOp' = [op |-> op, wallClock |-> wallClock, remote |-> remote,
                 before |-> hlc, prev |-> hlcOp]
    /\ UNCHANGED <<cmpVars, mapVars, repVars, netVars, lifeVars, pmVars, wsVars, shVars, pcVars>>

RefNow ==
    \E wallClock \in RefWalls :
        RefReturn("now", wallClock, NoResult, HLCNow(hlc, wallClock))

RefReceive ==
    \E wallClock \in RefWalls, remote \in RefRemotes :
        RefReturn("receive", wallClock, remote, HLCReceive(hlc, wallClock, remote))

RefNext == RefNow \/ RefReceive

SpecRef == RefInit /\ [][RefNext]_vars

(***************************************************************************)
(* SpecMap: any sequence of set, delete, applyRemote, subscribe and        *)
(* unsubscribe on one LWWMap constructed with node id "ab", with callbacks *)
(* that return normally.  mapLast.ret is what the call returns unless      *)
(* mapLast.threw.                                                          *)
(***************************************************************************)
\* Wall-clock readings of the map's clock: behind every remote time, and level
\* with the latest.
MapWalls == {0, 2}
ChangeTimes == {1, 2}
ChangeCounters == {0, 1}
ChangeTimestamps ==
    {Timestamp(t, c, n) : t \in ChangeTimes, c \in ChangeCounters, n \in RemoteIds}
RemoteChanges ==
    {Change(k, v, ts, d) : k \in Keys, v \in Values, ts \in ChangeTimestamps, d \in BOOLEAN}

MapInit ==
    /\ mapEntries = EmptyMap
    /\ mapClock = HLCNew(SelfId)
    /\ mapListeners = <<>>
    /\ mapLast = NoResult
    /\ mapOps = 0
    /\ CmpIdle
    /\ HlcIdle
    /\ RepIdle
    /\ NetIdle
    /\ LifeIdle
    /\ PmIdle
    /\ WsIdle
    /\ ShIdle
    /\ PcIdle

MapCall(op, arg, out) ==
    /\ mapOps < MaxMapOps
    /\ mapEntries' = out.entries
    /\ mapClock' = out.clock
    /\ mapLast' = [op |-> op, arg |-> arg, ret |-> out.ret, pre |-> mapEntries,
                   clock |-> mapClock,
                   local |-> IF op \in {"set", "delete"}
                             THEN LocalChanges(out) ELSE <<>>,
                   invoked |-> Invocations(mapListeners, out.notifies),
                   threw |-> Threw(mapListeners, out.notifies)]
    /\ mapOps' = mapOps + 1
    /\ UNCHANGED <<mapListeners, cmpVars, hlcVars, repVars, netVars, lifeVars, pmVars, wsVars, shVars, pcVars>>

Set ==
    \E key \in Keys, value \in Values, wallClock \in MapWalls :
        MapCall("set", [key |-> key, value |-> value],
                MapSet(mapEntries, mapClock, wallClock, key, value))

Delete ==
    \E key \in Keys, wallClock \in MapWalls :
        MapCall("delete", [key |-> key],
                MapDelete(mapEntries, mapClock, wallClock, key))

ApplyRemote ==
    \E change \in RemoteChanges, wallClock \in MapWalls :
        MapCall("applyRemote", change,
                MapApplyRemote(mapEntries, mapClock, wallClock, change))

\* subscribe(callback) and the function it returns: Set.add and Set.delete.
MapSubscription(op, l, listeners) ==
    /\ mapListeners' = listeners
    /\ mapLast' = [op |-> op, arg |-> l, ret |-> Null, pre |-> mapEntries,
                   clock |-> mapClock, local |-> <<>>,
                   invoked |-> Invocations(mapListeners, 0), threw |-> FALSE]
    /\ UNCHANGED <<mapEntries, mapClock, mapOps, cmpVars, hlcVars, repVars, netVars,
                 lifeVars, pmVars, wsVars, shVars, pcVars>>

Subscribe ==
    \E l \in Listeners \ Range(mapListeners) :
        MapSubscription("subscribe", l, Append(mapListeners, l))

Unsubscribe ==
    \E l \in Range(mapListeners) :
        MapSubscription("unsubscribe", l, Without(mapListeners, l))

MapNext == Set \/ Delete \/ ApplyRemote \/ Subscribe \/ Unsubscribe

SpecMap == MapInit /\ [][MapNext]_vars

(***************************************************************************)
(* SpecSub: any sequence of set, delete, applyRemote, merge, subscribe and *)
(* unsubscribe on one LWWMap constructed with node id "ab", with a         *)
(* callback that returns normally and one that throws.                     *)
(***************************************************************************)
SubCallbacks == {"l1"} \cup Throwers

\* The remote states passed to merge(): every key with an entry or without.
MergeTimestamps == {Timestamp(1, 0, IdA), Timestamp(2, 0, IdB)}
MergeEntries == {Entry("v1", ts, d) : ts \in MergeTimestamps, d \in BOOLEAN}
MergeStates == UNION {[ks -> MergeEntries] : ks \in SUBSET Keys}

Merge ==
    \E remoteEntries \in MergeStates, wallClock \in MapWalls :
        \E order \in Orders(DOMAIN remoteEntries) :
            MapCall("merge",
                    [entries |-> remoteEntries, order |-> order, wallClock |-> wallClock],
                    MapMerge(mapEntries, mapClock, wallClock, remoteEntries, order))

\* The changes passed to applyRemote(): the same entries, as changes.
MergeChanges ==
    {Change(k, e.value, e.timestamp, e.deleted) : k \in Keys, e \in MergeEntries}

SubApplyRemote ==
    \E change \in MergeChanges, wallClock \in MapWalls :
        MapCall("applyRemote", change,
                MapApplyRemote(mapEntries, mapClock, wallClock, change))

SubscribeAny ==
    \E l \in SubCallbacks \ Range(mapListeners) :
        MapSubscription("subscribe", l, Append(mapListeners, l))

SubNext == Set \/ Delete \/ SubApplyRemote \/ Merge \/ SubscribeAny \/ Unsubscribe

SpecSub == MapInit /\ [][SubNext]_vars

(***************************************************************************)
(* SpecShared: the documents of one engine, of peer "ab", which are        *)
(* LWWMaps created over the engine's one HLC.  Local writes and remote     *)
(* changes reach either document in any order; every change and entry      *)
(* passed to applyRemote or merge is kept in shSeen.                       *)
(***************************************************************************)
MaxShOps == 3
ShDocIds == {"todos", "notes"}
ShKeys == {"k1"}
ShWalls == {0, 2}
ShTimestamps ==
    {Timestamp(1, 0, IdA), Timestamp(2, 1, IdB), Timestamp(2, 0, SelfId)}
ShChanges ==
    {Change(k, "v1", ts, d) : k \in ShKeys, ts \in ShTimestamps, d \in BOOLEAN}
ShStates ==
    UNION {[ks -> {EntryOf(c) : c \in ShChanges}] : ks \in (SUBSET ShKeys) \ {{}}}

SharedInit ==
    /\ shDocs = <<>>
    /\ shClock = HLCNew(SelfId)
    /\ shSeen = {}
    /\ shLast = NoResult
    /\ shOps = 0
    /\ CmpIdle
    /\ HlcIdle
    /\ MapIdle
    /\ RepIdle
    /\ NetIdle
    /\ LifeIdle
    /\ PmIdle
    /\ WsIdle
    /\ PcIdle

\* document(documentId): new LWWMap(this.clock) when there is none
ShDocument ==
    \E documentId \in ShDocIds \ DOMAIN shDocs :
        /\ shDocs' = Put(shDocs, documentId, EmptyMap)
        /\ UNCHANGED <<shClock, shSeen, shLast, shOps>>
        /\ UNCHANGED <<cmpVars, hlcVars, mapVars, repVars, netVars, lifeVars, pmVars, wsVars, pcVars>>

\* A call on the map of `documentId` that came out as `out`, having been
\* passed the changes `passed`.
ShCall(op, documentId, passed, out) ==
    /\ shOps < MaxShOps
    /\ shDocs' = [shDocs EXCEPT ![documentId] = out.entries]
    /\ shClock' = out.clock
    /\ shSeen' = shSeen \cup passed
    /\ shLast' = [op |-> op, documentId |-> documentId, passed |-> passed,
                  ret |-> out.ret, clock |-> shClock, seen |-> shSeen]
    /\ shOps' = shOps + 1
    /\ UNCHANGED <<cmpVars, hlcVars, mapVars, repVars, netVars, lifeVars, pmVars, wsVars, pcVars>>

ShSet ==
    \E documentId \in DOMAIN shDocs, key \in ShKeys, wallClock \in ShWalls :
        ShCall("set", documentId, {},
               MapSet(shDocs[documentId], shClock, wallClock, key, "v2"))

ShDelete ==
    \E documentId \in DOMAIN shDocs, key \in ShKeys, wallClock \in ShWalls :
        ShCall("delete", documentId, {},
               MapDelete(shDocs[documentId], shClock, wallClock, key))

ShApplyRemote ==
    \E documentId \in DOMAIN shDocs, change \in ShChanges, wallClock \in ShWalls :
        ShCall("applyRemote", documentId, {change},
               MapApplyRemote(shDocs[documentId], shClock, wallClock, change))

ShMerge ==
    \E documentId \in DOMAIN shDocs, remoteEntries \in ShStates,
       wallClock \in ShWalls :
        \E order \in Orders(DOMAIN remoteEntries) :
            ShCall("merge", documentId,
                   {Change(k, remoteEntries[k].value, remoteEntries[k].timestamp,
                           remoteEntries[k].deleted) : k \in DOMAIN remoteEntries},
                   MapMerge(shDocs[documentId], shClock, wallClock,
                            remoteEntries, order))

SharedNext == ShDocument \/ ShSet \/ ShDelete \/ ShApplyRemote \/ ShMerge

SpecShared == SharedInit /\ [][SharedNext]_vars

(***************************************************************************)
(* SpecSnap: diffFrom, and toState followed by fromState on a fresh map,   *)
(* applied once to an LWWMap in any state: with any of its keys live or    *)
(* tombstoned under timestamps of any node.  The map shares its clock, as  *)
(* the documents of an engine do, so the clock is ahead of every entry.    *)
(* Keys are strings that name no property of Object.prototype, so that a   *)
(* lookup of an unlisted key in a record yields undefined.                 *)
(***************************************************************************)
SnapTimestamps ==
    {Timestamp(1, 0, IdA), Timestamp(1, 1, IdA), Timestamp(1, 0, IdB),
     Timestamp(2, 0, IdAB)}
SnapEntries == {Entry("v1", ts, d) : ts \in SnapTimestamps, d \in BOOLEAN}
SnapMaps == UNION {[ks -> SnapEntries] : ks \in SUBSET Keys}
SnapKnowns == UNION {[ks -> SnapTimestamps] : ks \in SUBSET Keys}
SnapWalls == {0, 3}

SnapInit ==
    /\ mapEntries \in SnapMaps
    /\ mapClock = Timestamp(2, 3, SelfId)
    /\ mapListeners = <<>>
    /\ mapLast = NoResult
    /\ mapOps = 0
    /\ CmpIdle
    /\ HlcIdle
    /\ RepIdle
    /\ NetIdle
    /\ LifeIdle
    /\ PmIdle
    /\ WsIdle
    /\ ShIdle
    /\ PcIdle

\* A call that reads the map and returns `ret`.
SnapCall(op, arg, ret) ==
    /\ mapLast = NoResult
    /\ mapLast' = [op |-> op, arg |-> arg, ret |-> ret, pre |-> mapEntries,
                   clock |-> mapClock]
    /\ UNCHANGED <<mapEntries, mapClock, mapListeners, mapOps>>
    /\ UNCHANGED <<cmpVars, hlcVars, repVars, netVars, lifeVars, pmVars, wsVars, shVars, pcVars>>

\* diffFrom(remoteKnown)
DiffFrom ==
    \E remoteKnown \in SnapKnowns :
        SnapCall("diffFrom", remoteKnown, MapDiffFrom(mapEntries, remoteKnown))

\* m2 = new LWWMap(nodeId); m2.fromState(m1.toState()): `ret` is m2's entries.
RoundTrip ==
    \E nodeId \in NodeIds, wallClock \in SnapWalls :
        LET state == MapToState(mapEntries)
        IN \E order \in Orders(DOMAIN state.entries) :
               SnapCall("fromState",
                        [nodeId |-> nodeId, wallClock |-> wallClock, order |-> order],
                        MapFromState(EmptyMap, HLCNew(nodeId), wallClock, state,
                                     order).entries)

SnapNext == DiffFrom \/ RoundTrip

SpecSnap == SnapInit /\ [][SnapNext]_vars

(***************************************************************************)
(* SpecLife: one SyncEngine through connect(), disconnect() and dispose(), *)
(* with handlers subscribing and unsubscribing, documents being opened and *)
(* peers arriving and leaving in between.  connect and disconnect are      *)
(* async functions without an await: their bodies run when they are        *)
(* called, and so does the disconnect() that dispose() calls.              *)
(***************************************************************************)
MaxLifeCalls == 4
LifeHandlers == {"h1", "h2"}
LifeDocuments == {"todos"}
LifePeers == {IdA}

\* new SyncEngine(config)
EngineNew ==
    [connected |-> FALSE, handlers |-> {}, documents |-> {},
     signaling |-> FALSE, joined |-> FALSE, peers |-> {}]

\* What a lifecycle call leaves and does: the engine after it, the events it
\* passed to emit, the handlers emit ran them on, and how many times it
\* called PeerManager.attach and PeerManager.detach.
LifeEffect(st, emitted, delivered, attach, detach) ==
    [st |-> st, emitted |-> emitted, delivered |-> delivered,
     attach |-> attach, detach |-> detach]

\* connect(): attach registers the message handler and joins the room.
EngineConnect(st) ==
    IF st.connected
    THEN LifeEffect(st, <<>>, {}, 0, 0)
    ELSE LifeEffect([st EXCEPT !.signaling = TRUE, !.joined = TRUE,
                               !.connected = TRUE],
                    <<"connected">>, st.handlers, 1, 0)

EngineDisconnect_unguarded(st) ==
    LifeEffect([st EXCEPT !.peers = {}, !.joined = FALSE, !.signaling = FALSE,
                          !.connected = FALSE],
               <<"disconnected">>, st.handlers, 0, 1)

\* disconnect(): detach closes and forgets every peer and leaves the room.
EngineDisconnect(st) ==
    IF ~st.connected
    THEN LifeEffect(st, <<>>, {}, 0, 0)
    ELSE LifeEffect([st EXCEPT !.peers = {}, !.joined = FALSE,
                               !.signaling = FALSE, !.connected = FALSE],
                    <<"disconnected">>, st.handlers, 0, 1)

\* dispose(): disconnect(), then the documents and the handlers are cleared.
EngineDispose(st) ==
    LET d == EngineDisconnect(st)
    IN LifeEffect([d.st EXCEPT !.documents = {}, !.handlers = {}],
                  d.emitted, d.delivered, d.attach, d.detach)

LifeInit ==
    /\ life = EngineNew
    /\ lifeLog = <<>>
    /\ lifeCalls = <<>>
    /\ lifeLast = NoResult
    /\ CmpIdle
    /\ HlcIdle
    /\ MapIdle
    /\ RepIdle
    /\ NetIdle
    /\ PmIdle
    /\ WsIdle
    /\ ShIdle
    /\ PcIdle

LifeCall(op, effect) ==
    /\ Len(lifeCalls) < MaxLifeCalls
    /\ life' = effect.st
    /\ lifeLog' = lifeLog \o effect.emitted
    /\ lifeCalls' = Append(lifeCalls, op)
    /\ lifeLast' = [op |-> op, pre |-> life, emitted |-> effect.emitted,
                    delivered |-> effect.delivered, attach |-> effect.attach,
                    detach |-> effect.detach]
    /\ UNCHANGED <<cmpVars, hlcVars, mapVars, repVars, netVars, pmVars, wsVars, shVars, pcVars>>

LifeConnect == LifeCall("connect", EngineConnect(life))
LifeDisconnect == LifeCall("disconnect", EngineDisconnect(life))
LifeDispose == LifeCall("dispose", EngineDispose(life))

\* Something other than a lifecycle call happens to the engine.
LifeOther(op, st, emitted) ==
    /\ life' = st
    /\ lifeLast' = [op |-> op, pre |-> life, emitted |-> emitted,
                    delivered |-> IF emitted = <<>> THEN {} ELSE life.handlers,
                    attach |-> 0, detach |-> 0]
    /\ UNCHANGED <<lifeLog, lifeCalls>>
    /\ UNCHANGED <<cmpVars, hlcVars, mapVars, repVars, netVars, pmVars, wsVars, shVars, pcVars>>

\* on(handler), and the unsubscribe function it returned
LifeOn ==
    \E h \in LifeHandlers \ life.handlers :
        LifeOther("on", [life EXCEPT !.handlers = @ \cup {h}], <<>>)

LifeOff ==
    \E h \in life.handlers :
        LifeOther("off", [life EXCEPT !.handlers = @ \ {h}], <<>>)

\* document(documentId) for a document the engine does not hold
LifeDocument ==
    \E d \in LifeDocuments \ life.documents :
        LifeOther("document", [life EXCEPT !.documents = @ \cup {d}], <<>>)

\* A peer of the room gets a connection whose channel opens.
LifePeerJoined ==
    \E p \in LifePeers \ life.peers :
        /\ life.joined
        /\ LifeOther("peer-joined", [life EXCEPT !.peers = @ \cup {p}],
                     <<"peer-joined">>)

\* The hub reports that a peer left: handlePeerLeave.
LifePeerLeft ==
    \E p \in life.peers :
        LifeOther("peer-left", [life EXCEPT !.peers = @ \ {p}], <<"peer-left">>)

LifeNext ==
    \/ LifeConnect
    \/ LifeDisconnect
    \/ LifeDispose
    \/ LifeOn
    \/ LifeOff
    \/ LifeDocument
    \/ LifePeerJoined
    \/ LifePeerLeft

SpecLife == LifeInit /\ [][LifeNext]_vars

(***************************************************************************)
(* SpecOffer: one PeerManager, of peer "ab", handling the signaling        *)
(* messages of two remote peers while it is attached and detached.  Every  *)
(* PeerConnection it creates is kept in pmConns, so that a connection that *)
(* was closed and dropped from the peer map can still be told from the one *)
(* that replaced it.  handleOffer and initiateConnection are suspended at  *)
(* their await and resumed by a separate step; other messages, and attach  *)
(* and detach, can be handled in between.  A connection that was closed    *)
(* while its negotiation was awaited either still settles it (resumed) or  *)
(* never does (abandoned): that is left to the WebRTC implementation.      *)
(***************************************************************************)
MaxConns == 3

\* this.peers.get(remotePeerId), as the set of connections held for it
Held(peersMap, remotePeerId) ==
    IF remotePeerId \in DOMAIN peersMap THEN {peersMap[remotePeerId]} ELSE {}

\* PeerConnection.close() on the connections `ids`
CloseAll_none(conns, ids) == conns

CloseAll(conns, ids) ==
    [i \in DOMAIN conns |->
        IF i \in ids THEN [conns[i] EXCEPT !.closed = TRUE] ELSE conns[i]]

CloseExisting_keeps(conns, peersMap, remotePeerId) == conns

\* handleOffer: "Clean up any existing connection"
CloseExisting(conns, peersMap, remotePeerId) ==
    CloseAll(conns, Held(peersMap, remotePeerId))

\* createPeerConnection: a new PeerConnection, set in the peer map
CreatePeerConnection(conns, remotePeerId, role) ==
    Append(conns, [peer |-> remotePeerId, closed |-> FALSE, role |-> role])

\* sendSignaling: this.signaling?.send(message)
SendSignaling(sent, attached, message) ==
    IF attached THEN Append(sent, message) ELSE sent

\* The answers sent for the offer that created connection `conn`.
AnswersFor(sent, conn) ==
    {i \in DOMAIN sent : sent[i].type = "answer" /\ sent[i].conn = conn}

OfferInit ==
    /\ pmAttached = FALSE
    /\ pmPeers = <<>>
    /\ pmConns = <<>>
    /\ pmHandling = {}
    /\ pmSent = <<>>
    /\ pmLast = NoResult
    /\ CmpIdle
    /\ HlcIdle
    /\ MapIdle
    /\ RepIdle
    /\ NetIdle
    /\ LifeIdle
    /\ WsIdle
    /\ ShIdle
    /\ PcIdle

PmStep(last) ==
    /\ pmLast' = last
    /\ UNCHANGED <<cmpVars, hlcVars, mapVars, repVars, netVars, lifeVars, wsVars, shVars, pcVars>>

\* attach(signaling, roomId)
PmAttach ==
    /\ ~pmAttached
    /\ pmAttached' = TRUE
    /\ UNCHANGED <<pmPeers, pmConns, pmHandling, pmSent>>
    /\ PmStep([op |-> "attach"])

\* detach()
PmDetach ==
    /\ pmAttached
    /\ pmConns' = CloseAll(pmConns, Range(pmPeers))
    /\ pmPeers' = <<>>
    /\ pmAttached' = FALSE
    /\ UNCHANGED <<pmHandling, pmSent>>
    /\ PmStep([op |-> "detach"])

\* handlePeerJoin up to the await in initiateConnection
ShouldInitiate_always(peerId, remotePeerId) == TRUE

\* handlePeerJoin: the peer with the greater id initiates
\* (`this.config.peerId > remotePeerId`).
ShouldInitiate(peerId, remotePeerId) == StrGreater(peerId, remotePeerId)

PmHandleJoin ==
    \E p \in {q \in RemoteIds : ShouldInitiate(SelfId, q)} :
        /\ pmAttached
        /\ Len(pmConns) < MaxConns
        /\ p \notin DOMAIN pmPeers
        /\ pmConns' = CreatePeerConnection(pmConns, p, "offerer")
        /\ pmPeers' = Put(pmPeers, p, Len(pmConns) + 1)
        /\ pmHandling' = pmHandling \cup
               {[type |-> "offer", peer |-> p, conn |-> Len(pmConns) + 1]}
        /\ UNCHANGED <<pmAttached, pmSent>>
        /\ PmStep([op |-> "join", peer |-> p])

\* handlePeerLeave
PmHandleLeave ==
    \E p \in DOMAIN pmPeers :
        /\ pmAttached
        /\ pmConns' = CloseAll(pmConns, Held(pmPeers, p))
        /\ pmPeers' = [q \in DOMAIN pmPeers \ {p} |-> pmPeers[q]]
        /\ UNCHANGED <<pmAttached, pmHandling, pmSent>>
        /\ PmStep([op |-> "leave", peer |-> p])

\* handleOffer up to its await: the old connection closed and dropped, a
\* new one created.
PmHandleOffer ==
    \E p \in RemoteIds :
        /\ pmAttached
        /\ Len(pmConns) < MaxConns
        /\ pmConns' = CreatePeerConnection(CloseExisting(pmConns, pmPeers, p),
                                           p, "answerer")
        /\ pmPeers' = Put(pmPeers, p, Len(pmConns) + 1)
        /\ pmHandling' = pmHandling \cup
               {[type |-> "answer", peer |-> p, conn |-> Len(pmConns) + 1]}
        /\ UNCHANGED <<pmAttached, pmSent>>
        /\ PmStep([op |-> "offer", peer |-> p, held |-> Held(pmPeers, p),
                   conn |-> Len(pmConns) + 1])

\* initiateConnection or handleOffer after its await: the description was
\* created and is sent, if a signaling channel is attached.
PmResumed ==
    \E h \in pmHandling :
        /\ pmSent' = SendSignaling(pmSent, pmAttached,
                                   [type |-> h.type, targetId |-> h.peer,
                                    conn |-> h.conn])
        /\ pmHandling' = pmHandling \ {h}
        /\ UNCHANGED <<pmAttached, pmPeers, pmConns>>
        /\ PmStep([op |-> "resumed", type |-> h.type, peer |-> h.peer,
                   conn |-> h.conn, attached |-> pmAttached,
                   closed |-> pmConns[h.conn].closed])

\* The negotiation of a closed connection never settles, or rejects.
PmAbandoned ==
    \E h \in pmHandling :
        /\ pmConns[h.conn].closed
        /\ pmHandling' = pmHandling \ {h}
        /\ UNCHANGED <<pmAttached, pmPeers, pmConns, pmSent>>
        /\ PmStep([op |-> "abandoned", type |-> h.type, peer |-> h.peer,
                   conn |-> h.conn])

OfferNext ==
    \/ PmAttach
    \/ PmDetach
    \/ PmHandleJoin
    \/ PmHandleLeave
    \/ PmHandleOffer
    \/ PmResumed
    \/ PmAbandoned

SpecOffer == OfferInit /\ [][OfferNext]_vars

(***************************************************************************)
(* SpecWs: one WebSocketSignaling driven by a PeerManager, whose attach    *)
(* calls join and whose detach calls leave, while its sockets open and     *)
(* close and its reconnect timers fire.  `new WebSocket(url)` either       *)
(* throws for the url of the transport or does not.  Every socket and      *)
(* every timer the transport created is kept, so that one it no longer     *)
(* refers to can still act.                                                *)
(***************************************************************************)
maxReconnectAttempts == 2
MaxSockets == 4

\* The fields of the transport as one record.
WsFields ==
    [socks |-> wsSocks, cur |-> wsCur, timers |-> wsTimers,
     timerRef |-> wsTimerRef, attempts |-> wsAttempts,
     disposed |-> wsDisposed, joined |-> wsJoined]

WsScheduleReconnect_unbounded(w) ==
    IF w.disposed
    THEN w
    ELSE [w EXCEPT !.attempts = @ + 1,
                   !.timers = Append(@, TRUE),
                   !.timerRef = Len(w.timers) + 1]

\* scheduleReconnect()
WsScheduleReconnect(w) ==
    IF w.disposed \/ w.attempts >= maxReconnectAttempts
    THEN w
    ELSE [w EXCEPT !.attempts = @ + 1,
                   !.timers = Append(@, TRUE),
                   !.timerRef = Len(w.timers) + 1]

\* connect(): a constructor that throws leaves this.ws as it was.
WsConnect(w, throws) ==
    IF w.disposed
    THEN w
    ELSE IF throws
    THEN WsScheduleReconnect(w)
    ELSE [w EXCEPT !.socks = Append(@, [state |-> "connecting",
                                        handlers |-> TRUE, opened |-> FALSE]),
                   !.cur = Len(w.socks) + 1]

\* cleanup(): clearTimeout on a timer that has fired does nothing.
WsCleanup(w) ==
    LET timers == IF w.timerRef = 0
                  THEN w.timers
                  ELSE [w.timers EXCEPT ![w.timerRef] = FALSE]
        socks == IF w.cur = 0
                 THEN w.socks
                 ELSE [w.socks EXCEPT ![w.cur] =
                          [state |-> "closed", handlers |-> FALSE,
                           opened |-> @.opened]]
    IN [w EXCEPT !.timers = timers, !.timerRef = 0, !.socks = socks, !.cur = 0]

\* join(roomId, peerId)
WsJoin(w, throws) ==
    WsConnect([w EXCEPT !.joined = TRUE, !.disposed = FALSE], throws)

\* leave()
WsLeave(w) ==
    IF w.cur = 0 \/ ~w.joined THEN w ELSE WsCleanup(w)

\* dispose()
WsDispose(w) == WsCleanup([w EXCEPT !.disposed = TRUE])

\* ws.onopen
WsOnOpen(w, i) ==
    [w EXCEPT !.socks[i].state = "open", !.socks[i].opened = TRUE,
              !.attempts = 0]

\* ws.onclose
WsOnClose(w, i) ==
    LET closed == [w EXCEPT !.socks[i].state = "closed"]
    IN IF ~w.disposed THEN WsScheduleReconnect(closed) ELSE closed

WsInit ==
    /\ wsSocks = <<>>
    /\ wsCur = 0
    /\ wsTimers = <<>>
    /\ wsTimerRef = 0
    /\ wsAttempts = 0
    /\ wsDisposed = FALSE
    /\ wsJoined = FALSE
    /\ wsCtorThrows \in BOOLEAN
    /\ wsTries = 0
    /\ wsLast = NoResult
    /\ pmAttached = FALSE
    /\ pmPeers = <<>>
    /\ pmConns = <<>>
    /\ pmHandling = {}
    /\ pmSent = <<>>
    /\ pmLast = NoResult
    /\ CmpIdle
    /\ HlcIdle
    /\ MapIdle
    /\ RepIdle
    /\ NetIdle
    /\ LifeIdle
    /\ ShIdle
    /\ PcIdle

\* One step of the transport: its fields become `w`.
WsStep(op, w, tries) ==
    /\ Len(w.socks) <= MaxSockets
    /\ wsSocks' = w.socks
    /\ wsCur' = w.cur
    /\ wsTimers' = w.timers
    /\ wsTimerRef' = w.timerRef
    /\ wsAttempts' = w.attempts
    /\ wsDisposed' = w.disposed
    /\ wsJoined' = w.joined
    /\ wsTries' = tries
    /\ wsLast' = [op |-> op, pre |-> WsFields, tries |-> wsTries]
    /\ UNCHANGED <<wsCtorThrows, pmPeers, pmConns, pmHandling, pmSent, pmLast>>
    /\ UNCHANGED <<cmpVars, hlcVars, mapVars, repVars, netVars, lifeVars, shVars, pcVars>>

\* PeerManager.attach: signaling.join(roomId, peerId)
WsAttach ==
    /\ ~pmAttached
    /\ pmAttached' = TRUE
    /\ WsStep("join", WsJoin(WsFields, wsCtorThrows), wsTries)

\* PeerManager.detach: signaling.leave()
WsDetach ==
    /\ pmAttached
    /\ pmAttached' = FALSE
    /\ WsStep("leave", WsLeave(WsFields), wsTries)

\* The application disposes of the transport.
WsDisposed ==
    /\ ~wsDisposed
    /\ UNCHANGED pmAttached
    /\ WsStep("dispose", WsDispose(WsFields), wsTries)

\* A socket that was connecting opens.
WsOpens ==
    \E i \in DOMAIN wsSocks :
        /\ wsSocks[i].state = "connecting"
        /\ wsSocks[i].handlers
        /\ UNCHANGED pmAttached
        /\ WsStep("open", WsOnOpen(WsFields, i), 0)

\* A socket fails to connect, or an open one drops.
WsCloses ==
    \E i \in DOMAIN wsSocks :
        /\ wsSocks[i].state \in {"connecting", "open"}
        /\ wsSocks[i].handlers
        /\ UNCHANGED pmAttached
        /\ WsStep("close", WsOnClose(WsFields, i), wsTries)

\* A reconnect timer fires: connect(), a reconnect attempt unless the
\* transport was disposed of.
WsTimerFires ==
    \E t \in DOMAIN wsTimers :
        /\ wsTimers[t]
        /\ UNCHANGED pmAttached
        /\ WsStep("attempt",
                  WsConnect([WsFields EXCEPT !.timers[t] = FALSE], wsCtorThrows),
                  IF wsDisposed THEN wsTries ELSE wsTries + 1)

WsNext ==
    \/ WsAttach
    \/ WsDetach
    \/ WsDisposed
    \/ WsOpens
    \/ WsCloses
    \/ WsTimerFires

SpecWs == WsInit /\ [][WsNext]_vars

(***************************************************************************)
(* SpecConv: two LWWMaps with different node ids, both empty at first, are *)
(* passed the changes of a set S through applyRemote, in any order and     *)
(* with duplicates.                                                        *)
(***************************************************************************)
Replicas == {IdA, IdB}
RepWalls == {1}
RepTimestamps == {Timestamp(1, 0, IdA), Timestamp(1, 0, IdB), Timestamp(2, 0, IdA)}
RepChanges ==
    {Change(k, v, ts, d) : k \in Keys, v \in Values, ts \in RepTimestamps, d \in BOOLEAN}

\* The set S: the changes passed to either replica so far.
RepSet == UNION {repApplied[m] : m \in Replicas}

ConvInit ==
    /\ repEntries = [m \in Replicas |-> EmptyMap]
    /\ repClock = [m \in Replicas |-> HLCNew(m)]
    /\ repApplied = [m \in Replicas |-> {}]
    /\ repCalls = [m \in Replicas |-> 0]
    /\ repSync = NoResult
    /\ CmpIdle
    /\ HlcIdle
    /\ MapIdle
    /\ NetIdle
    /\ LifeIdle
    /\ PmIdle
    /\ WsIdle
    /\ ShIdle
    /\ PcIdle

RepCall(m, out) ==
    /\ repCalls[m] < MaxApplies
    /\ repEntries' = [repEntries EXCEPT ![m] = out.entries]
    /\ repClock' = [repClock EXCEPT ![m] = out.clock]
    /\ repCalls' = [repCalls EXCEPT ![m] = @ + 1]

ConvApplyRemote ==
    \E m \in Replicas, change \in RepChanges, wallClock \in RepWalls :
        /\ Cardinality(RepSet \cup {change}) <= MaxChanges
        /\ RepCall(m, MapApplyRemote(repEntries[m], repClock[m], wallClock, change))
        /\ repApplied' = [repApplied EXCEPT ![m] = @ \cup {change}]
        /\ UNCHANGED <<repSync, cmpVars, hlcVars, mapVars, netVars, lifeVars, pmVars, wsVars, shVars, pcVars>>

ConvNext == ConvApplyRemote

SpecConv == ConvInit /\ [][ConvNext]_vars

(***************************************************************************)
(* SpecAE: two LWWMaps with different node ids take local set and delete   *)
(* calls and remote changes, and then one anti-entropy pass                *)
(* to.merge(from.diffFrom(to.getKnownEntries())) runs between them.        *)
(***************************************************************************)
AeInit == ConvInit

AeCall(m, out) ==
    /\ repSync = NoResult
    /\ repCalls[IdA] + repCalls[IdB] < MaxAeOps
    /\ RepCall(m, out)
    /\ UNCHANGED <<repSync, cmpVars, hlcVars, mapVars, netVars, lifeVars, pmVars, wsVars, shVars, pcVars>>

AeSet ==
    \E m \in Replicas, key \in Keys, value \in Values, wallClock \in RepWalls :
        /\ AeCall(m, MapSet(repEntries[m], repClock[m], wallClock, key, value))
        /\ UNCHANGED repApplied

AeDelete ==
    \E m \in Replicas, key \in Keys, wallClock \in RepWalls :
        /\ AeCall(m, MapDelete(repEntries[m], repClock[m], wallClock, key))
        /\ UNCHANGED repApplied

AeApplyRemote ==
    \E m \in Replicas, change \in RepChanges, wallClock \in RepWalls :
        /\ AeCall(m, MapApplyRemote(repEntries[m], repClock[m], wallClock, change))
        /\ UNCHANGED repApplied

AntiEntropy ==
    \E from \in Replicas, to \in Replicas, wallClock \in RepWalls :
        LET known == MapGetKnownEntries(repEntries[to])
            diff == MapDiffFrom(repEntries[from], known)
        IN \E order \in Orders(DOMAIN diff) :
               LET out == MapMerge(repEntries[to], repClock[to], wallClock, diff, order)
               IN /\ from # to
                  /\ repSync = NoResult
                  /\ repSync' = [from |-> from, to |-> to, before |-> repEntries[to],
                                 diff |-> diff, ret |-> out.ret]
                  /\ repEntries' = [repEntries EXCEPT ![to] = out.entries]
                  /\ repClock' = [repClock EXCEPT ![to] = out.clock]
                  /\ UNCHANGED <<repApplied, repCalls, cmpVars, hlcVars, mapVars, netVars,
                               lifeVars, pmVars, wsVars, shVars, pcVars>>

AeNext == AeSet \/ AeDelete \/ AeApplyRemote \/ AntiEntropy

SpecAE == AeInit /\ [][AeNext]_vars

(***************************************************************************)
(* PeerConnection (peer/connection.ts).  A connection is the record        *)
(*   state    PeerConnection.state                                         *)
(*   pcState  the connectionState of its RTCPeerConnection                 *)
(*   dc       "null" when it has no data channel, else the readyState of   *)
(*            its RTCDataChannel                                           *)
(*   desc     the session descriptions set on the RTCPeerConnection:       *)
(*            "none", "local" (its own offer) or "stable" (both)           *)
(***************************************************************************)
Conn(state, pcState, dc, desc) ==
    [state |-> state, pcState |-> pcState, dc |-> dc, desc |-> desc]

\* new PeerConnection(remotePeerId, callbacks, iceServers)
ConnNew == Conn("new", "new", "null", "none")

\* createOffer() up to its first await: the data channel is created.
ConnOffering == Conn("new", "new", "connecting", "none")

ConnSends_anyChannel(conn) == conn.dc # "null"

\* send(message) transmits only over an open data channel.
ConnSends(conn) == conn.dc = "open"

\* mapState(rtcState) and the test of onconnectionstatechange: the state
\* after the RTCPeerConnection reports rtcState.
ConnOnStateChange(conn, rtcState) ==
    [conn EXCEPT !.pcState = rtcState, !.state = rtcState]

\* channel.onopen
ConnOnOpen(conn) == [conn EXCEPT !.dc = "open", !.state = "connected"]

(***************************************************************************)
(* The data-channel messages (types.ts).  JSON.stringify and JSON.parse    *)
(* carry them: keys, values, document ids and node ids are strings, times  *)
(* and counters are integers and `deleted` is a boolean, all of which the  *)
(* round trip returns unchanged.                                           *)
(***************************************************************************)
Message(type, documentId, payload) ==
    [type |-> type, documentId |-> documentId, payload |-> payload]

SyncRequest(documentId, knownEntries) ==
    Message("sync-request", documentId, knownEntries)

SyncResponse(documentId, entries) ==
    Message("sync-response", documentId, entries)

ChangeMessage(documentId, changes) == Message("change", documentId, changes)

(***************************************************************************)
(* PeerManager (peer/manager.ts).  `ps` is the peers map of every engine   *)
(* and `ch` the messages in flight on every data channel.                  *)
(***************************************************************************)
EmptyPeers == [p \in {} |-> NoResult]

\* sendTo(peerId, message) for each message of msgs in turn.
SendTo(ch, ps, e, peerId, msgs) ==
    IF peerId \in DOMAIN ps[e] /\ ConnSends(ps[e][peerId])
    THEN [ch EXCEPT ![<<e, peerId>>] = @ \o msgs]
    ELSE ch

\* The peers a broadcast(message) of engine e transmits to.
BroadcastTargets(ps, e) == {p \in DOMAIN ps[e] : ConnSends(ps[e][p])}

Broadcast_onlyToSmallerIds(ch, ps, e, message) ==
    [c \in DOMAIN ch |->
        IF c[1] = e /\ c[2] \in BroadcastTargets(ps, e) /\ StrGreater(e, c[2])
        THEN Append(ch[c], message)
        ELSE ch[c]]

\* broadcast(message)
Broadcast(ch, ps, e, message) ==
    [c \in DOMAIN ch |->
        IF c[1] = e /\ c[2] \in BroadcastTargets(ps, e)
        THEN Append(ch[c], message)
        ELSE ch[c]]

\* getPeers() filtered as getConnectedCount() filters it.
ConnectedPeers(ps, e) == {p \in DOMAIN ps[e] : ps[e][p].state = "connected"}

\* handlePeerJoin(remotePeerId): whether this manager creates the offer.
Initiates(e, remotePeerId, ps) ==
    /\ remotePeerId \notin DOMAIN ps[e]
    /\ StrGreater(e, remotePeerId)

(***************************************************************************)
(* SyncEngine (sync/engine.ts).                                            *)
(***************************************************************************)
DocIds == {"todos"}

\* The documents loop of handlePeerConnected: one sync-request per document,
\* in the order of the documents Map.
RECURSIVE SyncRequestsFor(_, _)
SyncRequestsFor(docs, ids) ==
    IF ids = {} THEN <<>>
    ELSE LET docId == CHOOSE d \in ids : TRUE
         IN <<SyncRequest(docId, MapGetKnownEntries(docs[docId]))>>
            \o SyncRequestsFor(docs, ids \ {docId})

\* handlePeerConnected(peerId): the channels after its sendTo calls.
HandlePeerConnected(ch, ps, docs, e, peerId) ==
    SendTo(ch, ps, e, peerId, SyncRequestsFor(docs[e], DOMAIN docs[e]))

\* this.documents.get(documentId), or the new LWWMap the handlers create.
DocOrNew(docs, documentId) ==
    IF documentId \in DOMAIN docs THEN docs[documentId] ELSE EmptyMap

\* The SyncEvents the engine emits.
PeerJoined(peerId) == [type |-> "peer-joined", id |-> peerId]

PeerLeft(peerId) == [type |-> "peer-left", id |-> peerId]

DocumentChanged(documentId) == [type |-> "document-changed", id |-> documentId]

\* onStateChange(state) of the manager, and the handlePeerConnected or
\* handlePeerDisconnected of the engine behind it: the events emitted.
StateChangeEvents(state, peerId) ==
    CASE state = "connected" -> <<PeerJoined(peerId)>>
      [] state \in {"disconnected", "failed"} -> <<PeerLeft(peerId)>>
      [] OTHER -> <<>>

HandleSyncRequest_alwaysCounter(docs, message) ==
    <<SyncResponse(message.documentId,
                   MapDiffFrom(DocOrNew(docs, message.documentId), message.payload)),
      SyncRequest(message.documentId,
                  MapGetKnownEntries(DocOrNew(docs, message.documentId)))>>

HandleSyncRequest_fullState(docs, message) ==
    <<SyncResponse(message.documentId, DocOrNew(docs, message.documentId))>>

\* handleSyncRequest(peerId, message): the messages it passes to sendTo.
HandleSyncRequest(docs, message) ==
    LET knownEntries == message.payload
        hasDoc == message.documentId \in DOMAIN docs
        doc == docs[message.documentId]
        missingEntries == IF hasDoc THEN MapDiffFrom(doc, knownEntries) ELSE EmptyMap
        ourKnown == MapGetKnownEntries(doc)
        weNeed == {key \in DOMAIN knownEntries : key \notin DOMAIN ourKnown}
    IN <<SyncResponse(message.documentId, missingEntries)>>
       \o (IF hasDoc /\ weNeed # {}
           THEN <<SyncRequest(message.documentId, ourKnown)>>
           ELSE <<>>)

\* handleSyncResponse(message): the document and clock after doc.merge.
HandleSyncResponse(docs, clock, wallClock, message, order) ==
    MapMerge(DocOrNew(docs, message.documentId), clock, wallClock,
             message.payload, order)

\* The loop of handleRemoteChange: applyRemote on each change in turn.
RECURSIVE ApplyChanges(_, _, _, _)
ApplyChanges(entries, clock, wallClock, changes) ==
    IF changes = <<>> THEN Outcome(entries, clock, FALSE, 0)
    ELSE LET out == MapApplyRemote(entries, clock, wallClock, Head(changes))
             rest == ApplyChanges(out.entries, out.clock, wallClock, Tail(changes))
         IN Outcome(rest.entries, rest.clock, out.ret \/ rest.ret,
                    out.notifies + rest.notifies)

\* handleRemoteChange(message)
HandleRemoteChange(docs, clock, wallClock, message) ==
    ApplyChanges(DocOrNew(docs, message.documentId), clock, wallClock,
                 message.payload)

DataEvents_always(message, out) == <<DocumentChanged(message.documentId)>>

\* The events handleSyncResponse and handleRemoteChange emit after the map
\* operation came out as `out`: `applied.length > 0` and `anyApplied`.
DataEvents(message, out) ==
    IF \/ message.type = "sync-response" /\ Len(out.ret) > 0
       \/ message.type = "change" /\ out.ret
    THEN <<DocumentChanged(message.documentId)>>
    ELSE <<>>

(***************************************************************************)
(* SpecNet: two engines "a" and "b" in one room, wired through the         *)
(* in-memory signaling hub, which hands each message at once to the        *)
(* channels registered in the room.  The engines open the document, write  *)
(* to it and connect in any order; the transport completes every           *)
(* negotiation that is started.                                            *)
(***************************************************************************)
NetEngines == {IdA, IdB}
NetKeys == {"todo-1"}
NetValues == {"X", "Y"}
NetWalls == {1, 2}

Links(engines) == {c \in engines \X engines : c[1] # c[2]}

NetInit ==
    /\ engConnected = [e \in NetEngines |-> FALSE]
    /\ engDocs = [e \in NetEngines |-> EmptyMap]
    /\ engClock = [e \in NetEngines |-> HLCNew(e)]
    /\ hubRoom = {}
    /\ peers = [e \in NetEngines |-> EmptyPeers]
    /\ pending = {}
    /\ chan = [c \in Links(NetEngines) |-> <<>>]
    /\ offersSent = [e \in NetEngines |-> 0]
    /\ netLast = NoResult
    /\ netOps = 0
    /\ engHeld = [e \in NetEngines |-> {}]
    /\ netIn = NoResult
    /\ netFaults = 0
    /\ CmpIdle
    /\ HlcIdle
    /\ MapIdle
    /\ RepIdle
    /\ LifeIdle
    /\ PmIdle
    /\ WsIdle
    /\ ShIdle
    /\ PcIdle

\* The messages engine e hands to each of its data channels in this step.
Sent(e) ==
    [q \in DOMAIN peers[e] |->
        SubSeq(chan'[<<e, q>>], Len(chan[<<e, q>>]) + 1, Len(chan'[<<e, q>>]))]

\* The record of engine e handling an event from peer p: a data-channel
\* message (handleData) or a state its connection reports (onStateChange),
\* with its documents before and after, the messages it transmitted and the
\* events it emitted.
Inbound(kind, e, p, message, state, events) ==
    [kind |-> kind, engine |-> e, from |-> p, message |-> message,
     state |-> state, docs |-> engDocs[e], after |-> engDocs'[e],
     sent |-> Sent(e), events |-> events]

\* pc.onconnectionstatechange on e's connection to p when the
\* RTCPeerConnection reports rtcState: the state is set and onStateChange
\* runs only if the mapped state differs from the current one.
StateChange(e, p, rtcState) ==
    LET changed == peers[e][p].state # rtcState
    IN /\ peers' = [peers EXCEPT ![e][p] = ConnOnStateChange(@, rtcState)]
       /\ chan' = IF changed /\ rtcState = "connected"
                  THEN HandlePeerConnected(chan, peers', engDocs, e, p)
                  ELSE chan
       /\ UNCHANGED <<engConnected, engDocs, engClock, hubRoom, pending,
                      offersSent, netLast, netOps, engHeld>>
       /\ UNCHANGED <<cmpVars, hlcVars, mapVars, repVars, lifeVars, pmVars, wsVars, shVars, pcVars>>
       /\ netIn' = Inbound("state", e, p, NoResult, rtcState,
                           IF changed THEN StateChangeEvents(rtcState, p) ELSE <<>>)

\* engine.document(documentId), when it creates the document
OpenDocument ==
    \E e \in DOMAIN engDocs, documentId \in DocIds :
        /\ documentId \notin DOMAIN engDocs[e]
        /\ engDocs' = [engDocs EXCEPT ![e] = Put(@, documentId, EmptyMap)]
        /\ UNCHANGED <<engConnected, engClock, hubRoom, peers, pending, chan,
                       offersSent, netLast, netOps, engHeld, netIn, netFaults>>
        /\ UNCHANGED <<cmpVars, hlcVars, mapVars, repVars, lifeVars, pmVars, wsVars, shVars, pcVars>>

\* Whether `message` was handed to the data channel from e to p.
Transmitted(before, after, e, p, message) ==
    /\ Len(after[<<e, p>>]) = Len(before[<<e, p>>]) + 1
    /\ LET sent == after[<<e, p>>][Len(after[<<e, p>>])]
       IN /\ sent.type = message.type
          /\ sent.documentId = message.documentId
          /\ sent.payload = message.payload

\* A call on a SyncDocumentHandle whose map operation came out as `out`:
\* onLocalChange and broadcastChanges.
HandleCall(e, op, documentId, out) ==
    LET message == ChangeMessage(documentId, <<out.ret>>)
        broadcasts == LocalChanges(out) # <<>> /\ engConnected[e]
    IN /\ netOps < MaxNetOps
       /\ engDocs' = [engDocs EXCEPT ![e][documentId] = out.entries]
       /\ engClock' = [engClock EXCEPT ![e] = out.clock]
       /\ chan' = IF broadcasts THEN Broadcast(chan, peers, e, message) ELSE chan
       /\ netLast' = [op |-> op, engine |-> e, documentId |-> documentId,
                      change |-> out.ret,
                      connected |-> engConnected[e],
                      connectedPeers |-> ConnectedPeers(peers, e),
                      notOpen |-> {p \in DOMAIN peers[e] : peers[e][p].dc # "open"},
                      sentTo |-> {p \in DOMAIN peers[e] :
                                     Transmitted(chan, chan', e, p, message)}]
       /\ netOps' = netOps + 1
       /\ UNCHANGED <<engConnected, hubRoom, peers, pending, offersSent, engHeld, netIn, netFaults>>
       /\ UNCHANGED <<cmpVars, hlcVars, mapVars, repVars, lifeVars, pmVars, wsVars, shVars, pcVars>>

\* SyncDocumentHandle.set(key, value)
HandleSet ==
    \E e \in DOMAIN engDocs, wallClock \in NetWalls, key \in NetKeys, value \in NetValues :
        \E documentId \in DOMAIN engDocs[e] :
            HandleCall(e, "set", documentId,
                       MapSet(engDocs[e][documentId], engClock[e], wallClock, key, value))

\* SyncDocumentHandle.delete(key)
HandleDelete ==
    \E e \in DOMAIN engDocs, wallClock \in NetWalls, key \in NetKeys :
        \E documentId \in DOMAIN engDocs[e] :
            HandleCall(e, "delete", documentId,
                       MapDelete(engDocs[e][documentId], engClock[e], wallClock, key))

\* engine.connect(): attach() registers with the hub and sends `join`, which
\* the hub routes to the managers already in the room; each runs
\* handlePeerJoin, and one that initiates creates the connection and starts
\* createOffer().
Connect ==
    \E e \in DOMAIN engConnected :
        /\ ~engConnected[e]
        /\ LET initiators == {r \in hubRoom \ {e} : Initiates(r, e, peers)}
           IN /\ peers' = [r \in DOMAIN peers |->
                              IF r \in initiators
                              THEN Put(peers[r], e, ConnOffering)
                              ELSE peers[r]]
              /\ pending' = pending \cup
                     {[kind |-> "offer", at |-> r, peer |-> e] : r \in initiators}
        /\ hubRoom' = hubRoom \cup {e}
        /\ engConnected' = [engConnected EXCEPT ![e] = TRUE]
        /\ engHeld' = [engHeld EXCEPT ![e] = DOMAIN engDocs[e]]
        /\ UNCHANGED <<engDocs, engClock, chan, offersSent, netLast, netOps,
                       netIn, netFaults>>
        /\ UNCHANGED <<cmpVars, hlcVars, mapVars, repVars, lifeVars, pmVars, wsVars, shVars, pcVars>>

\* createOffer() resolves in initiateConnection: the offer is sent, the hub
\* routes it to its target, and the target's handleOffer replaces any
\* connection it had and starts answering.
OfferReady ==
    \E cont \in pending :
        /\ cont.kind = "offer"
        /\ cont.peer \in DOMAIN peers[cont.at]
        /\ LET e == cont.at
               p == cont.peer
               sent == e \in hubRoom
               delivered == sent /\ p \in hubRoom
               local == [peers EXCEPT ![e][p].desc = "local"]
           IN /\ peers' = IF delivered
                          THEN [local EXCEPT ![p] = Put(@, e, ConnNew)]
                          ELSE local
              /\ offersSent' = IF sent
                               THEN [offersSent EXCEPT ![e] = @ + 1]
                               ELSE offersSent
              /\ pending' =
                    IF delivered
                    THEN (pending \ {cont, [kind |-> "offer", at |-> p, peer |-> e]})
                         \cup {[kind |-> "answer", at |-> p, peer |-> e]}
                    ELSE pending \ {cont}
        /\ UNCHANGED <<engConnected, engDocs, engClock, hubRoom, chan, netLast, netOps, engHeld, netIn, netFaults>>
        /\ UNCHANGED <<cmpVars, hlcVars, mapVars, repVars, lifeVars, pmVars, wsVars, shVars, pcVars>>

\* PeerConnection.handleOffer resolves in PeerManager.handleOffer: the
\* answer is sent and routed to the offerer, whose handleAnswer sets it.
AnswerReady ==
    \E cont \in pending :
        /\ cont.kind = "answer"
        /\ cont.peer \in DOMAIN peers[cont.at]
        /\ LET e == cont.at
               p == cont.peer
               delivered == e \in hubRoom /\ p \in hubRoom /\ e \in DOMAIN peers[p]
               local == [peers EXCEPT ![e][p].desc = "stable"]
           IN peers' = IF delivered
                       THEN [local EXCEPT ![p][e].desc = "stable"]
                       ELSE local
        /\ pending' = pending \ {cont}
        /\ UNCHANGED <<engConnected, engDocs, engClock, hubRoom, chan, offersSent,
                       netLast, netOps, engHeld, netIn, netFaults>>
        /\ UNCHANGED <<cmpVars, hlcVars, mapVars, repVars, lifeVars, pmVars, wsVars, shVars, pcVars>>

\* pc.onconnectionstatechange with connectionState "connecting": the
\* RTCPeerConnection has both descriptions and starts its connectivity checks.
PcConnecting ==
    \E e \in DOMAIN peers :
        \E p \in DOMAIN peers[e] :
            /\ peers[e][p].pcState = "new"
            /\ peers[e][p].desc = "stable"
            /\ peers' = [peers EXCEPT ![e][p] = ConnOnStateChange(@, "connecting")]
            /\ UNCHANGED <<engConnected, engDocs, engClock, hubRoom, pending, chan,
                           offersSent, netLast, netOps, engHeld, netIn, netFaults>>
            /\ UNCHANGED <<cmpVars, hlcVars, mapVars, repVars, lifeVars, pmVars, wsVars, shVars, pcVars>>

\* pc.onconnectionstatechange with connectionState "connected", once both
\* ends are checking: the state changes and onStateChange('connected') runs
\* onPeerConnected, that is handlePeerConnected.
PcConnected ==
    \E e \in DOMAIN peers :
        \E p \in DOMAIN peers[e] :
            /\ peers[e][p].pcState = "connecting"
            /\ e \in DOMAIN peers[p]
            /\ peers[p][e].pcState \in {"connecting", "connected"}
            /\ StateChange(e, p, "connected")
            /\ UNCHANGED netFaults

\* The data channel opens over the connected transport (on the answering
\* side pc.ondatachannel hands it to setupDataChannel first): channel.onopen
\* sets the state and runs onStateChange('connected'), whatever the state was.
DcOpen ==
    \E e \in DOMAIN peers :
        \E p \in DOMAIN peers[e] :
            /\ peers[e][p].pcState = "connected"
            /\ peers[e][p].dc # "open"
            /\ e \in DOMAIN peers[p]
            /\ peers[p][e].pcState = "connected"
            /\ peers' = [peers EXCEPT ![e][p] = ConnOnOpen(@)]
            /\ chan' = HandlePeerConnected(chan, peers', engDocs, e, p)
            /\ UNCHANGED <<engConnected, engDocs, engClock, hubRoom, pending,
                           offersSent, netLast, netOps, engHeld, netFaults>>
            /\ UNCHANGED <<cmpVars, hlcVars, mapVars, repVars, lifeVars, pmVars, wsVars, shVars, pcVars>>
            /\ netIn' = Inbound("state", e, p, NoResult, "connected",
                                StateChangeEvents("connected", p))

\* channel.onmessage on engine e for the oldest message in flight from p:
\* onData, that is handleData(p, message).
DataReplies_echoes(docs, message) ==
    IF message.type = "sync-request"
    THEN HandleSyncRequest(docs, message)
    ELSE <<message>>

\* handleData: the messages the engine passes to sendTo while it handles a
\* message; only handleSyncRequest sends.
DataReplies(docs, message) ==
    IF message.type = "sync-request"
    THEN HandleSyncRequest(docs, message)
    ELSE <<>>

DeliverData ==
    \E e \in DOMAIN peers :
        \E p \in DOMAIN peers[e] :
            /\ peers[e][p].dc = "open"
            /\ chan[<<p, e>>] # <<>>
            /\ LET message == Head(chan[<<p, e>>])
                   rest == [chan EXCEPT ![<<p, e>>] = Tail(@)]
               IN \E wallClock \in NetWalls :
                  \E order \in IF message.type = "sync-response"
                               THEN Orders(DOMAIN message.payload)
                               ELSE {<<>>} :
                      IF message.type = "sync-request"
                      THEN /\ chan' = SendTo(rest, peers, e, p,
                                             HandleSyncRequest(engDocs[e], message))
                           /\ UNCHANGED <<engDocs, engClock>>
                           /\ netIn' = Inbound("data", e, p, message, "none", <<>>)
                      ELSE LET out ==
                                   IF message.type = "sync-response"
                                   THEN HandleSyncResponse(engDocs[e], engClock[e],
                                                           wallClock, message, order)
                                   ELSE HandleRemoteChange(engDocs[e], engClock[e],
                                                           wallClock, message)
                           IN /\ chan' = SendTo(rest, peers, e, p,
                                                DataReplies(engDocs[e], message))
                              /\ engDocs' = [engDocs EXCEPT ![e] =
                                                Put(@, message.documentId, out.entries)]
                              /\ engClock' = [engClock EXCEPT ![e] = out.clock]
                              /\ netIn' = Inbound("data", e, p, message, "none",
                                                  DataEvents(message, out))
            /\ UNCHANGED <<engConnected, hubRoom, peers, pending, offersSent,
                           netLast, netOps, engHeld, netFaults>>
            /\ UNCHANGED <<cmpVars, hlcVars, mapVars, repVars, lifeVars, pmVars, wsVars, shVars, pcVars>>

\* The steps the signaling and the transport take by themselves.
NetInternal ==
    OfferReady \/ AnswerReady \/ PcConnecting \/ PcConnected \/ DcOpen \/ DeliverData

NetNext ==
    \/ OpenDocument
    \/ HandleSet
    \/ HandleDelete
    \/ Connect
    \/ OfferReady
    \/ AnswerReady
    \/ PcConnecting
    \/ PcConnected
    \/ DcOpen
    \/ DeliverData

SpecNet == NetInit /\ [][NetNext]_vars

(***************************************************************************)
(* SpecMesh: three engines "a", "ab" and "b" that share the document       *)
(* "todos" and are pairwise connected with open data channels, as they are *)
(* after joining in the order "b", "ab", "a" and finishing the initial     *)
(* sync of their empty documents.  They take set and delete calls on       *)
(* their handles in any interleaving with the delivery of the `change`     *)
(* messages.                                                               *)
(***************************************************************************)
MeshEngines == {IdA, IdAB, IdB}

ConnOpen == Conn("connected", "connected", "open", "stable")

MeshInit ==
    /\ engConnected = [e \in MeshEngines |-> TRUE]
    /\ engDocs = [e \in MeshEngines |-> [d \in DocIds |-> EmptyMap]]
    /\ engClock = [e \in MeshEngines |-> HLCNew(e)]
    /\ hubRoom = MeshEngines
    /\ peers = [e \in MeshEngines |-> [p \in MeshEngines \ {e} |-> ConnOpen]]
    /\ pending = {}
    /\ chan = [c \in Links(MeshEngines) |-> <<>>]
    /\ offersSent = [e \in MeshEngines |->
                        Cardinality({p \in MeshEngines : StrGreater(e, p)})]
    /\ netLast = NoResult
    /\ netOps = 0
    /\ engHeld = [e \in MeshEngines |-> DocIds]
    /\ netIn = NoResult
    /\ netFaults = 0
    /\ CmpIdle
    /\ HlcIdle
    /\ MapIdle
    /\ RepIdle
    /\ LifeIdle
    /\ PmIdle
    /\ WsIdle
    /\ ShIdle
    /\ PcIdle

MeshNext ==
    \/ HandleSet
    \/ HandleDelete
    \/ DeliverData

SpecMesh == MeshInit /\ [][MeshNext]_vars

(***************************************************************************)
(* SpecFault: the three pairwise connected engines of SpecMesh, of which   *)
(* "a" may not have opened the document "todos", over a transport that can *)
(* lose a connection.  The RTCPeerConnection of one end then reports       *)
(* connectionState "disconnected", and from there either "connected"       *)
(* again or "failed"; its RTCDataChannel stays open meanwhile, as the code *)
(* closes it only in close().                                              *)
(***************************************************************************)
\* The engines that may start without the document.
LateOpeners == {IdA}

\* The connections the transport may lose: the two ends of the link between
\* "a" and "ab", each as <<engine, peer>>.
LossyLinks == {<<IdA, IdAB>>, <<IdAB, IdA>>}

FaultInit ==
    /\ engConnected = [e \in MeshEngines |-> TRUE]
    /\ \E without \in SUBSET LateOpeners :
           engDocs = [e \in MeshEngines |->
                         IF e \in without THEN EmptyMap
                         ELSE [d \in DocIds |-> EmptyMap]]
    /\ engClock = [e \in MeshEngines |-> HLCNew(e)]
    /\ hubRoom = MeshEngines
    /\ peers = [e \in MeshEngines |-> [p \in MeshEngines \ {e} |-> ConnOpen]]
    /\ pending = {}
    /\ chan = [c \in Links(MeshEngines) |-> <<>>]
    /\ offersSent = [e \in MeshEngines |->
                        Cardinality({p \in MeshEngines : StrGreater(e, p)})]
    /\ netLast = NoResult
    /\ netOps = 0
    /\ engHeld = [e \in MeshEngines |-> DOMAIN engDocs[e]]
    /\ netIn = NoResult
    /\ netFaults = 0
    /\ CmpIdle
    /\ HlcIdle
    /\ MapIdle
    /\ RepIdle
    /\ LifeIdle
    /\ PmIdle
    /\ WsIdle
    /\ ShIdle
    /\ PcIdle

\* The wall-clock readings and the values of the handle calls of SpecFault.
FaultWalls == {1}
FaultValues == {"X"}

\* SyncDocumentHandle.set(key, value)
FaultSet ==
    \E e \in DOMAIN engDocs, wallClock \in FaultWalls, key \in NetKeys, value \in FaultValues :
        \E documentId \in DOMAIN engDocs[e] :
            HandleCall(e, "set", documentId,
                       MapSet(engDocs[e][documentId], engClock[e], wallClock, key, value))

\* SyncDocumentHandle.delete(key)
FaultDelete ==
    \E e \in DOMAIN engDocs, wallClock \in FaultWalls, key \in NetKeys :
        \E documentId \in DOMAIN engDocs[e] :
            HandleCall(e, "delete", documentId,
                       MapDelete(engDocs[e][documentId], engClock[e], wallClock, key))

\* pc.onconnectionstatechange with connectionState "disconnected": the
\* transport lost the connection.
PcDisconnected ==
    \E e \in DOMAIN peers :
        \E p \in DOMAIN peers[e] :
            /\ netFaults < MaxFaults
            /\ <<e, p>> \in LossyLinks
            /\ peers[e][p].pcState = "connected"
            /\ StateChange(e, p, "disconnected")
            /\ netFaults' = netFaults + 1

\* pc.onconnectionstatechange with connectionState "connected" after
\* "disconnected": the transport recovered.
PcReconnected ==
    \E e \in DOMAIN peers :
        \E p \in DOMAIN peers[e] :
            /\ peers[e][p].pcState = "disconnected"
            /\ StateChange(e, p, "connected")
            /\ UNCHANGED netFaults

\* pc.onconnectionstatechange with connectionState "failed" after
\* "disconnected": the transport gave up.
PcFailed ==
    \E e \in DOMAIN peers :
        \E p \in DOMAIN peers[e] :
            /\ peers[e][p].pcState = "disconnected"
            /\ StateChange(e, p, "failed")
            /\ UNCHANGED netFaults

FaultNext ==
    \/ FaultSet
    \/ FaultDelete
    \/ DeliverData
    \/ PcDisconnected
    \/ PcReconnected
    \/ PcFailed

SpecFault == FaultInit /\ [][FaultNext]_vars

(***************************************************************************)
(* SpecJunk: the engines of SpecNet, each of which can also receive, on an *)
(* open data channel, a text that is not one of the three messages the     *)
(* engine handles: a text that is not JSON, JSON that is no object, and    *)
(* objects with a type the switch of handleData has no case for.           *)
(***************************************************************************)
JunkTexts ==
    {"{bad", "null",
     "{\"documentId\":\"todos\"}",
     "{\"type\":\"change-ack\",\"documentId\":\"todos\",\"payload\":null}",
     "{\"type\":\"ping\",\"documentId\":\"notes\",\"payload\":null}"}

\* JSON.parse on those texts: the value, or a SyntaxError.
JsonParse(text) ==
    CASE text = "null" -> [ok |-> TRUE, value |-> Null]
      [] text = "{\"documentId\":\"todos\"}" ->
            [ok |-> TRUE, value |-> [documentId |-> "todos"]]
      [] text = "{\"type\":\"change-ack\",\"documentId\":\"todos\",\"payload\":null}" ->
            [ok |-> TRUE,
             value |-> [type |-> "change-ack", documentId |-> "todos", payload |-> Null]]
      [] text = "{\"type\":\"ping\",\"documentId\":\"notes\",\"payload\":null}" ->
            [ok |-> TRUE,
             value |-> [type |-> "ping", documentId |-> "notes", payload |-> Null]]
      [] OTHER -> [ok |-> FALSE]

\* What handling a text comes to: the documents and the clock after it,
\* the events emitted, the messages sent back, whether something was
\* thrown, and whether it got out of the handler.
Handled(docs, clock, events, replies, threw, raised) ==
    [docs |-> docs, clock |-> clock, events |-> events, replies |-> replies,
     threw |-> threw, raised |-> raised]

HandleOther_asChange(docs, clock, message) ==
    IF message = Null
    THEN Handled(docs, clock, <<>>, <<>>, TRUE, TRUE)
    ELSE Handled(Put(docs, message.documentId,
                     DocOrNew(docs, message.documentId)),
                 clock, <<>>, <<>>, FALSE, FALSE)

\* handleData on a value whose type is none of sync-request, sync-response
\* and change: reading the type of null throws, any other value matches no
\* case of the switch.
HandleOther(docs, clock, message) ==
    IF message = Null
    THEN Handled(docs, clock, <<>>, <<>>, TRUE, TRUE)
    ELSE Handled(docs, clock, <<>>, <<>>, FALSE, FALSE)

\* channel.onmessage: parse and hand on, inside one try/catch.
OnJunkMessage(docs, clock, text) ==
    LET parsed == JsonParse(text)
    IN IF ~parsed.ok
       THEN Handled(docs, clock, <<>>, <<>>, TRUE, FALSE)
       ELSE [HandleOther(docs, clock, parsed.value) EXCEPT !.raised = FALSE]

DeliverJunk ==
    \E e \in DOMAIN peers :
        \E p \in DOMAIN peers[e], text \in JunkTexts :
            /\ peers[e][p].dc = "open"
            /\ LET out == OnJunkMessage(engDocs[e], engClock[e], text)
               IN /\ engDocs' = [engDocs EXCEPT ![e] = out.docs]
                  /\ engClock' = [engClock EXCEPT ![e] = out.clock]
                  /\ chan' = [chan EXCEPT ![<<e, p>>] = @ \o out.replies]
                  /\ UNCHANGED <<engConnected, hubRoom, peers, pending, offersSent,
                                 netLast, netOps, engHeld, netFaults>>
                  /\ netIn' = [kind |-> "junk", engine |-> e, from |-> p,
                               message |-> text, state |-> "none",
                               docs |-> engDocs[e], after |-> engDocs'[e],
                               sent |-> Sent(e), events |-> out.events,
                               clock |-> engClock[e], clockAfter |-> engClock'[e],
                               peers |-> peers[e], peersAfter |-> peers'[e],
                               threw |-> out.threw, raised |-> out.raised]
            /\ UNCHANGED <<cmpVars, hlcVars, mapVars, repVars, lifeVars, pmVars, wsVars, shVars, pcVars>>

JunkNext ==
    \/ OpenDocument
    \/ FaultSet
    \/ Connect
    \/ NetInternal
    \/ DeliverJunk

SpecJunk == NetInit /\ [][JunkNext]_vars

(***************************************************************************)
(* The claims.                                                             *)
(***************************************************************************)

\* No two distinct changes of S to the same key carry the same timestamp.
UniqueTimestamps(S) ==
    \A c1, c2 \in S : (c1.key = c2.key /\ c1.timestamp = c2.timestamp) => c1 = c2

BothApplied == repApplied[IdA] = RepSet /\ repApplied[IdB] = RepSet

ReplicasAgree ==
    /\ repEntries[IdA] = repEntries[IdB]
    /\ MapGetAll(repEntries[IdA]) = MapGetAll(repEntries[IdB])

\* C1 (as stated): once every change of a set S has been passed to applyRemote
\* on each of two maps that started empty, in any order and with duplicates,
\* the two maps hold the same entry for every key and getAll() agrees.
C1_ConvergenceAnySet == BothApplied => ReplicasAgree

\* C1 (amended): for a set S in which no two distinct changes to the same key
\* carry the same timestamp, once every change of S has been passed to
\* applyRemote on each of two maps that started empty, in any order and with
\* duplicates, the two maps hold the same entry for every key and getAll()
\* agrees.
C1_ConvergenceUniqueTimestamps ==
    (BothApplied /\ UniqueTimestamps(RepSet)) => ReplicasAgree

\* Two changes to one key that tie on (time, counter) were passed to both
\* maps, and one map was passed a duplicate.
C1_Witness ==
    /\ BothApplied
    /\ UniqueTimestamps(RepSet)
    /\ \E c1, c2 \in RepSet :
           /\ c1.key = c2.key
           /\ c1.timestamp.time = c2.timestamp.time
           /\ c1.timestamp.nodeId # c2.timestamp.nodeId
           /\ c1.value # c2.value
    /\ repCalls[IdA] = 3
    /\ repCalls[IdB] = 2

\* C3: each timestamp an HLC instance returns from now() or receive() compares
\* strictly greater than every timestamp it returned before.
C3_Monotonic ==
    hlcLast # NoResult => \A p \in hlcPrev : compareTimestamps(hlcLast, p) > 0

\* now() was called with a wall clock behind the clock's time, after at least
\* two earlier calls.
C3_Witness ==
    /\ hlcLast # NoResult
    /\ hlcOp.op = "now"
    /\ hlcOp.wallClock < hlcOp.before.time
    /\ Cardinality(hlcPrev) >= 2

\* The map held no entry for the key, or one with a lesser timestamp.
C4_Newer(pre, change) ==
    \/ change.key \notin DOMAIN pre
    \/ compareTimestamps(pre[change.key].timestamp, change.timestamp) < 0

\* C4: applyRemote(change) returns true and overwrites the key's entry with
\* the change iff the map has no entry for the key or the entry's timestamp
\* compares strictly less than the change's; otherwise it returns false,
\* leaves the entries unchanged and invokes no subscriber.
C4_ApplyRemoteContract ==
    (mapLast # NoResult /\ mapLast.op = "applyRemote") =>
        LET change == mapLast.arg
            pre == mapLast.pre
        IN IF C4_Newer(pre, change)
           THEN /\ mapLast.ret = TRUE
                /\ DOMAIN mapEntries = DOMAIN pre \cup {change.key}
                /\ mapEntries[change.key].value = change.value
                /\ mapEntries[change.key].timestamp = change.timestamp
                /\ mapEntries[change.key].deleted = change.deleted
                /\ \A k \in DOMAIN pre \ {change.key} : mapEntries[k] = pre[k]
           ELSE /\ mapLast.ret = FALSE
                /\ mapEntries = pre
                /\ \A l \in DOMAIN mapLast.invoked : mapLast.invoked[l] = 0

\* applyRemote rejected a change to a key the map held, with a subscriber
\* present.
C4_Witness ==
    /\ mapLast # NoResult
    /\ mapLast.op = "applyRemote"
    /\ mapLast.ret = FALSE
    /\ mapLast.arg.key \in DOMAIN mapLast.pre
    /\ DOMAIN mapLast.invoked # {}

\* The entry and the change tie on (time, counter) and differ in nodeId.
C5_Tie(entry, change) ==
    /\ entry.timestamp.time = change.timestamp.time
    /\ entry.timestamp.counter = change.timestamp.counter
    /\ entry.timestamp.nodeId # change.timestamp.nodeId

\* C5: when a change arrives for a key whose entry has the same (time,
\* counter) and another nodeId, the map afterwards holds whichever of the two
\* has the lexicographically larger nodeId: the change is accepted when its
\* nodeId is the larger, rejected when it is the smaller, in either order of
\* arrival.
C5_TieBreak ==
    (/\ mapLast # NoResult
     /\ mapLast.op = "applyRemote"
     /\ mapLast.arg.key \in DOMAIN mapLast.pre
     /\ C5_Tie(mapLast.pre[mapLast.arg.key], mapLast.arg)) =>
        LET change == mapLast.arg
            held == mapLast.pre[change.key]
        IN IF StrGreater(change.timestamp.nodeId, held.timestamp.nodeId)
           THEN mapLast.ret = TRUE /\ mapEntries[change.key] = EntryOf(change)
           ELSE mapLast.ret = FALSE /\ mapEntries[change.key] = held

\* A local entry of node "ab" was overwritten by a change of node "b" with the
\* same time and counter.
C5_Witness ==
    /\ mapLast # NoResult
    /\ mapLast.op = "applyRemote"
    /\ mapLast.arg.key \in DOMAIN mapLast.pre
    /\ C5_Tie(mapLast.pre[mapLast.arg.key], mapLast.arg)
    /\ mapLast.pre[mapLast.arg.key].timestamp.nodeId = SelfId
    /\ mapLast.arg.timestamp.nodeId = IdB
    /\ mapLast.ret = TRUE

\* C6: compareTimestamps is the lexicographic total order on (time, counter,
\* nodeId): sign(compare(a,b)) = -sign(compare(b,a)); compare(a,b) = 0 exactly
\* when the three fields are equal; compare(a,b) < 0 and compare(b,c) < 0
\* imply compare(a,c) < 0.
C6_TotalOrder ==
    cmpRes # NoResult =>
        LET a == cmpArgs[1]
            b == cmpArgs[2]
        IN /\ Sign(cmpRes.ab) = 0 - Sign(cmpRes.ba)
           /\ (cmpRes.ab = 0) <=>
                  (a.time = b.time /\ a.counter = b.counter /\ a.nodeId = b.nodeId)
           /\ (cmpRes.ab < 0 /\ cmpRes.bc < 0) => cmpRes.ac < 0
           /\ (cmpRes.ab < 0) <=>
                  \/ a.time < b.time
                  \/ a.time = b.time /\ a.counter < b.counter
                  \/ a.time = b.time /\ a.counter = b.counter
                        /\ StrLess(a.nodeId, b.nodeId)

\* A chain a < b < c in which the nodeId alone decides a < b, and the counter
\* alone b < c.
C6_Witness ==
    /\ cmpRes # NoResult
    /\ cmpRes.ab < 0
    /\ cmpRes.bc < 0
    /\ cmpArgs[1].time = cmpArgs[2].time
    /\ cmpArgs[1].counter = cmpArgs[2].counter
    /\ cmpArgs[2].time = cmpArgs[3].time

\* After the pass, for every key `from` knew about, `to` holds from's entry,
\* except where keeps(its own timestamp, from's timestamp), when it holds the
\* entry it had before.
C7_Converged(keeps(_, _)) ==
    repSync # NoResult =>
        LET a == repEntries[repSync.from]
            before == repSync.before
            after == repEntries[repSync.to]
        IN \A k \in DOMAIN a :
               /\ k \in DOMAIN after
               /\ IF k \in DOMAIN before /\ keeps(before[k].timestamp, a[k].timestamp)
                  THEN after[k] = before[k]
                  ELSE after[k] = a[k]

C7_KeepsGreater(mine, theirs) == compareTimestamps(mine, theirs) > 0

C7_KeepsGreaterOrEqual(mine, theirs) == compareTimestamps(mine, theirs) >= 0

\* C7 (as stated): after to.merge(from.diffFrom(to.getKnownEntries())), for
\* every key `from` knew about, `to` holds from's entry, except where `to`
\* already held an entry with a strictly greater timestamp, which it keeps.
C7_AntiEntropyStrict == C7_Converged(C7_KeepsGreater)

\* C7 (amended): after to.merge(from.diffFrom(to.getKnownEntries())), for
\* every key `from` knew about, `to` holds from's entry, except where `to`
\* already held an entry with a greater or equal timestamp, which it keeps.
C7_AntiEntropy == C7_Converged(C7_KeepsGreaterOrEqual)

\* An anti-entropy pass gave `to` a key it lacked and replaced an older entry
\* of another key.
C7_Witness ==
    /\ repSync # NoResult
    /\ \E k \in DOMAIN repSync.diff : k \notin DOMAIN repSync.before
    /\ \E k \in DOMAIN repSync.diff :
           /\ k \in DOMAIN repSync.before
           /\ repEntries[repSync.to][k] # repSync.before[k]

(***************************************************************************)
(* C11, C12 and C13 are stated over SpecSub.                               *)
(***************************************************************************)
\* C11: over any sequence of set, delete, applyRemote and merge calls on one
\* map, no call leaves a key with a timestamp that compares less than the
\* one the key had before the call, and a local set, or a delete that
\* tombstones, leaves its key with a strictly greater one, also after
\* remote timestamps ahead of the wall clock were received.
C11_TimestampsNeverDecrease ==
    mapOps > 0 =>
        /\ \A k \in DOMAIN mapLast.pre :
               /\ k \in DOMAIN mapEntries
               /\ compareTimestamps(mapEntries[k].timestamp,
                                    mapLast.pre[k].timestamp) >= 0
        /\ ( /\ mapLast.op \in {"set", "delete"}
             /\ mapLast.ret # Null
             /\ mapLast.arg.key \in DOMAIN mapLast.pre )
           => compareTimestamps(mapEntries[mapLast.arg.key].timestamp,
                                mapLast.pre[mapLast.arg.key].timestamp) > 0

\* A local set replaced an entry received from node "b" whose time, 2, the
\* map's clock had adopted.
C11_Witness ==
    /\ mapOps > 0
    /\ mapLast.op = "set"
    /\ mapLast.arg.key \in DOMAIN mapLast.pre
    /\ mapLast.pre[mapLast.arg.key].timestamp.nodeId = IdB
    /\ mapLast.pre[mapLast.arg.key].timestamp.time = 2
    /\ mapEntries[mapLast.arg.key].timestamp.nodeId = SelfId
    /\ mapEntries[mapLast.arg.key].timestamp.time = 2

\* The keys whose entry the last call stored: the mutations it accepted.
AcceptedKeys ==
    {k \in DOMAIN mapEntries : k \notin DOMAIN mapLast.pre \/ mapEntries[k] # mapLast.pre[k]}

MutatingCall ==
    mapLast # NoResult /\ mapLast.op \in {"set", "delete", "applyRemote", "merge"}

\* C12: when a call has mutated the map and a subscribed callback threw
\* while being notified of it, every subscribed callback was still invoked
\* and the call completed as if none had failed: it did not end with the
\* exception, so the change is returned to the caller.
C12_FailureIsolation ==
    (MutatingCall /\ AcceptedKeys # {}) =>
        /\ \A l \in DOMAIN mapLast.invoked : mapLast.invoked[l] >= 1
        /\ ~mapLast.threw

\* C13: a call invokes every subscribed callback exactly once for each
\* mutation it accepts (a set, a delete that tombstones, an accepted
\* applyRemote, each entry accepted by merge), and not at all when it
\* accepts none; only subscribed callbacks are invoked.
C13_OncePerMutation ==
    MutatingCall =>
        /\ DOMAIN mapLast.invoked = Range(mapListeners)
        /\ \A l \in DOMAIN mapLast.invoked :
               mapLast.invoked[l] = Cardinality(AcceptedKeys)

(***************************************************************************)
(* C8, C9 and C10 are stated over SpecNet.  The signaling and the          *)
(* transport have nothing left to do when no step of NetInternal is        *)
(* enabled.                                                                *)
(***************************************************************************)
NetQuiescent == ~ENABLED NetInternal

\* C8: engine a's document has had one set(key, X) applied before a's
\* connect(), engine b held the same-named document at its connect(), both
\* have connected (in either order) and the signaling and transport have
\* finished all they had to do: then b's document contains key -> X.
C8_EndToEnd ==
    \A a, b \in DOMAIN engConnected :
        ( /\ a # b
          /\ netOps = 1
          /\ netLast.op = "set"
          /\ netLast.engine = a
          /\ ~netLast.connected
          /\ engConnected[a]
          /\ engConnected[b]
          /\ netLast.documentId \in engHeld[b]
          /\ NetQuiescent )
        => LET state == MapGetAll(engDocs[b][netLast.documentId])
           IN /\ netLast.change.key \in DOMAIN state
              /\ state[netLast.change.key] = netLast.change.value

\* C9: once "a" and "b" have both joined the room, in either order, and the
\* signaling has finished all it had to do, exactly one offer has been sent
\* for the pair, and "b" sent it.
C9_OneOfferByGreater ==
    (hubRoom = NetEngines /\ NetQuiescent)
        => (offersSent[IdB] = 1 /\ offersSent[IdA] = 0)

\* C10: a set, or a delete that tombstones a live key, made on a handle
\* while the engine is connected has, when it returns, sent a `change`
\* message carrying exactly its CRDTChange to every peer whose connection
\* was in the `connected` state.
C10_BroadcastToConnected ==
    (netOps > 0 /\ netLast.connected /\ netLast.change # Null)
        => netLast.connectedPeers \subseteq netLast.sentTo

(***************************************************************************)
(* C2 is stated over SpecMesh.                                             *)
(***************************************************************************)
\* No message is in flight on any data channel.
AllDelivered == \A c \in DOMAIN chan : chan[c] = <<>>

\* C2: in a group of pairwise connected engines sharing a document, once
\* every `change` message sent by the set and delete calls made so far has
\* been delivered, all engines hold identical entries and an identical
\* getState() for the document.
C2_MeshConverges ==
    AllDelivered =>
        \A e, f \in DOMAIN engDocs :
            \A d \in DocIds :
                /\ engDocs[e][d] = engDocs[f][d]
                /\ MapGetAll(engDocs[e][d]) = MapGetAll(engDocs[f][d])

\* "a" and "b" have written the same key concurrently, "a" last; every
\* change has been delivered and every engine holds the write of "b".
C2_Witness ==
    /\ AllDelivered
    /\ netOps = 2
    /\ netLast.op = "set"
    /\ netLast.engine = IdA
    /\ netLast.change.timestamp = Timestamp(1, 0, IdA)
    /\ \A e \in DOMAIN engDocs :
          /\ netLast.change.key \in DOMAIN engDocs[e][netLast.documentId]
          /\ engDocs[e][netLast.documentId][netLast.change.key].timestamp
                 = Timestamp(1, 0, IdB)
          /\ engDocs[e][netLast.documentId][netLast.change.key].value
                 # netLast.change.value

(***************************************************************************)
(* C14 is stated over SpecFault and C15 over SpecNet.                      *)
(***************************************************************************)
\* C14: a set or delete call on a document handle transmits its change only
\* over connections whose PeerConnection.state is `connected` at the call:
\* send() hands nothing to the transport while the state is new, connecting,
\* disconnected, failed or closed.
C14_SendsOnlyWhenConnected ==
    netLast # NoResult => netLast.sentTo \subseteq netLast.connectedPeers

\* Whether the `change` message of the last handle call is in flight to p.
InFlightTo(p) ==
    \E i \in 1..Len(chan[<<netLast.engine, p>>]) :
        LET sent == chan[<<netLast.engine, p>>][i]
        IN /\ sent.type = "change"
           /\ sent.documentId = netLast.documentId
           /\ sent.payload = <<netLast.change>>

\* C15: the change of a set or delete call is never in flight to a peer
\* whose data channel was absent or not open when the call was made, neither
\* at the call nor at any time after it: send() transmitted nothing and
\* buffered nothing for it, even once the channel has opened.
C15_DroppedWhenNotOpen ==
    (netLast # NoResult /\ netLast.change # Null) =>
        \A p \in netLast.notOpen : ~InFlightTo(p)

\* A connected engine made a call that produced a change while its channel
\* to a peer was not open, and that channel has opened since.
C15_Witness ==
    /\ netLast # NoResult
    /\ netLast.change # Null
    /\ netLast.connected
    /\ \E p \in netLast.notOpen :
          /\ p \in netLast.connectedPeers
          /\ peers[netLast.engine][p].dc = "open"

(***************************************************************************)
(* C16, C17 and C18 are stated over SpecFault, C19 and C20 over SpecNet.   *)
(***************************************************************************)
\* The last event an engine handled was its connection reporting `state`.
HandledState(state) ==
    /\ netIn # NoResult
    /\ netIn.kind = "state"
    /\ netIn.state = state

\* The last event an engine handled was a data-channel message of a type in
\* `types`.
HandledData(types) ==
    /\ netIn # NoResult
    /\ netIn.kind = "data"
    /\ netIn.message.type \in types

\* C16: once the transport of an engine's connection to a peer has reported
\* `failed`, that peer is no longer in the engine's peer set, and the engine
\* emitted one `peer-left` event for it.
C16_FailedPeerRemoved ==
    HandledState("failed") =>
        /\ netIn.from \notin DOMAIN peers[netIn.engine]
        /\ netIn.events = <<PeerLeft(netIn.from)>>

\* The messages of type `type` among those the last handler sent to peer q.
SentOfType(q, type) ==
    {i \in 1..Len(netIn.sent[q]) : netIn.sent[q][i].type = type}

\* Every entry of `local`, tombstones included, whose key `known` does not
\* list or lists with an older timestamp.
C17_MissingOrNewer(local, known) ==
    [k \in {x \in DOMAIN local :
               \/ x \notin DOMAIN known
               \/ compareTimestamps(known[x], local[x].timestamp) < 0}
        |-> local[k]]

\* C17: an engine that handles a sync-request for document D from peer P
\* sends P exactly one sync-response, whose entries are every entry of its
\* local D that P does not list or lists with an older timestamp (none when
\* it has no D), and sends no other peer anything.
C17_SyncResponseIsDiff ==
    HandledData({"sync-request"}) =>
        LET P == netIn.from
            D == netIn.message.documentId
            local == DocOrNew(netIn.docs, D)
        IN /\ Cardinality(SentOfType(P, "sync-response")) = 1
           /\ netIn.sent[P][1].type = "sync-response"
           /\ netIn.sent[P][1].documentId = D
           /\ netIn.sent[P][1].payload
                  = C17_MissingOrNewer(local, netIn.message.payload)
           /\ \A q \in DOMAIN netIn.sent : q # P => netIn.sent[q] = <<>>

\* An engine with two other peers answered a sync-request that lists a key
\* with an older timestamp than its own: the response carries that key.
C17_Witness ==
    /\ HandledData({"sync-request"})
    /\ Cardinality(DOMAIN netIn.sent) = 2
    /\ \E k \in DOMAIN netIn.message.payload :
          /\ k \in DOMAIN netIn.sent[netIn.from][1].payload
          /\ netIn.sent[netIn.from][1].payload[k].timestamp
                 # netIn.message.payload[k]

\* C18: an engine that handles a sync-request sends the sender one counter
\* sync-request carrying its own {key: timestamp} map when knownEntries
\* lists a key it does not hold, a document it does not have counting as
\* empty, and sends no counter request when it holds every listed key.
C18_CounterRequest ==
    HandledData({"sync-request"}) =>
        LET P == netIn.from
            D == netIn.message.documentId
            local == DocOrNew(netIn.docs, D)
            missing == DOMAIN netIn.message.payload \ DOMAIN local
            counter == SentOfType(P, "sync-request")
        IN IF missing # {}
           THEN /\ Cardinality(counter) = 1
                /\ \A i \in counter :
                       /\ netIn.sent[P][i].documentId = D
                       /\ netIn.sent[P][i].payload = MapGetKnownEntries(local)
           ELSE counter = {}

\* C19: when an engine's connection to a peer becomes connected and the
\* engine emits `peer-joined`, it transmits to that peer one sync-request
\* for every document registered at that moment, carrying the timestamp of
\* every key of the document, live or tombstoned.
C19_SyncRequestOnConnect ==
    (HandledState("connected") /\ netIn.events = <<PeerJoined(netIn.from)>>) =>
        LET requests == netIn.sent[netIn.from]
        IN /\ Len(requests) = Cardinality(DOMAIN netIn.docs)
           /\ \A D \in DOMAIN netIn.docs :
                  \E i \in 1..Len(requests) :
                      /\ requests[i].type = "sync-request"
                      /\ requests[i].documentId = D
                      /\ requests[i].payload
                             = [k \in DOMAIN netIn.docs[D] |->
                                   netIn.docs[D][k].timestamp]

C21_DeleteNoOp ==
    ( /\ mapLast # NoResult
      /\ mapLast.op = "delete"
      /\ \/ mapLast.arg.key \notin DOMAIN mapLast.pre
         \/ mapLast.pre[mapLast.arg.key].deleted )
    => /\ mapLast.ret = Null
       /\ mapEntries = mapLast.pre
       /\ mapClock = mapLast.clock
       /\ \A l \in DOMAIN mapLast.invoked : mapLast.invoked[l] = 0
       /\ mapLast.local = <<>>

\* A delete of a key whose entry is a tombstone received from a remote node,
\* with a callback subscribed.
C21_Witness ==
    /\ mapLast # NoResult
    /\ mapLast.op = "delete"
    /\ mapLast.arg.key \in DOMAIN mapLast.pre
    /\ mapLast.pre[mapLast.arg.key].deleted
    /\ mapLast.pre[mapLast.arg.key].timestamp.time = 1
    /\ mapListeners # <<>>

(***************************************************************************)
(* C22 is stated over SpecSub.                                             *)
(***************************************************************************)
\* C22: no set, delete, applyRemote or merge removes an entry: every key
\* that had an entry before the call, live or tombstoned, has one after it;
\* and a delete that returns a change leaves the key's entry with the value
\* it had, marked deleted, under a timestamp greater than the clock and the
\* entry's timestamp before the call.
C22_EntriesPersist ==
    mapLast # NoResult =>
        /\ DOMAIN mapLast.pre \subseteq DOMAIN mapEntries
        /\ (mapLast.op = "delete" /\ mapLast.ret # Null) =>
               LET key == mapLast.arg.key
               IN /\ key \in DOMAIN mapEntries
                  /\ mapEntries[key].deleted
                  /\ mapEntries[key].value = mapLast.pre[key].value
                  /\ mapEntries[key].timestamp = mapLast.ret.timestamp
                  /\ compareTimestamps(mapEntries[key].timestamp, mapLast.clock) > 0
                  /\ compareTimestamps(mapEntries[key].timestamp,
                                       mapLast.pre[key].timestamp) > 0

\* A delete tombstoned a live entry whose timestamp was ahead of the wall
\* clock, while the map held two keys.
C22_Witness ==
    /\ mapLast # NoResult
    /\ mapLast.op = "delete"
    /\ mapLast.ret # Null
    /\ mapLast.pre[mapLast.arg.key].timestamp.time = 2
    /\ mapLast.ret.timestamp.counter > 0
    /\ Cardinality(DOMAIN mapEntries) = 2

(***************************************************************************)
(* C23 is stated over SpecSub.                                             *)
(***************************************************************************)
\* applyRemote called once for each entry of remoteEntries in `order`, every
\* call reading the wall clock as wallClock: the entries and the clock after
\* the calls, and the changes for which applyRemote returned true.
RECURSIVE C23_ApplyEach(_, _, _, _, _, _)
C23_ApplyEach(entries, clock, wallClock, remoteEntries, order, accepted) ==
    IF order = <<>>
    THEN [entries |-> entries, clock |-> clock, accepted |-> accepted]
    ELSE LET e == remoteEntries[Head(order)]
             change == Change(Head(order), e.value, e.timestamp, e.deleted)
             out == MapApplyRemote(entries, clock, wallClock, change)
         IN C23_ApplyEach(out.entries, out.clock, wallClock, remoteEntries,
                          Tail(order),
                          IF out.ret THEN Append(accepted, change) ELSE accepted)

\* C23: merge(E) leaves the entries and the clock of the map as calling
\* applyRemote once for each entry of E, in the order merge visits them,
\* leaves them, and returns exactly the entries for which applyRemote
\* returns true.
C23_MergeIsApplyEach ==
    (mapLast # NoResult /\ mapLast.op = "merge") =>
        LET each == C23_ApplyEach(mapLast.pre, mapLast.clock, mapLast.arg.wallClock,
                                  mapLast.arg.entries, mapLast.arg.order, <<>>)
        IN /\ mapEntries = each.entries
           /\ mapClock = each.clock
           /\ mapLast.ret = each.accepted

\* A merge of two entries into a map that held a newer entry for one of the
\* keys: one entry was accepted, the second one visited, and one rejected.
C23_Witness ==
    /\ mapLast # NoResult
    /\ mapLast.op = "merge"
    /\ Len(mapLast.arg.order) = 2
    /\ Len(mapLast.ret) = 1
    /\ mapLast.ret[1].key = mapLast.arg.order[2]
    /\ mapLast.arg.order[1] \in DOMAIN mapLast.pre

C25_SnapshotRoundTrip ==
    (mapLast # NoResult /\ mapLast.op = "fromState") =>
        /\ DOMAIN mapLast.ret = DOMAIN mapEntries
        /\ \A k \in DOMAIN mapEntries :
               /\ mapLast.ret[k].value = mapEntries[k].value
               /\ mapLast.ret[k].timestamp = mapEntries[k].timestamp
               /\ mapLast.ret[k].deleted = mapEntries[k].deleted
        /\ MapToState(mapLast.ret) = MapToState(mapEntries)
        /\ MapGetAll(mapLast.ret) = MapGetAll(mapEntries)

\* A round trip of a map with a live entry and a tombstone into a fresh map
\* of the node that stamped one of them.
C25_Witness ==
    /\ mapLast # NoResult
    /\ mapLast.op = "fromState"
    /\ \E k, j \in DOMAIN mapEntries :
          /\ mapEntries[k].deleted
          /\ ~mapEntries[j].deleted
          /\ mapEntries[j].timestamp.nodeId = mapLast.arg.nodeId

(***************************************************************************)
(* C26 is stated over SpecLife.                                            *)
(***************************************************************************)
\* C26: across any sequence of connect(), disconnect() and dispose() calls
\* the engine is connected exactly when the last of them was a connect(),
\* the `connected` and `disconnected` events it emitted alternate and start
\* with `connected`, and a connect() while connected or a disconnect()
\* while disconnected emits nothing and neither attaches nor detaches the
\* Peer Manager.
C26_LifecycleAlternates ==
    /\ life.connected <=>
           (lifeCalls # <<>> /\ lifeCalls[Len(lifeCalls)] = "connect")
    /\ \A i \in DOMAIN lifeLog :
           lifeLog[i] = IF i % 2 = 1 THEN "connected" ELSE "disconnected"
    /\ (/\ lifeLast # NoResult
        /\ \/ lifeLast.op = "connect" /\ lifeLast.pre.connected
           \/ lifeLast.op = "disconnect" /\ ~lifeLast.pre.connected)
       => /\ lifeLast.emitted = <<>>
          /\ lifeLast.attach = 0
          /\ lifeLast.detach = 0
          /\ life = lifeLast.pre

\* connect, connect again, dispose, then a disconnect while disconnected:
\* two events emitted in all.
C26_Witness ==
    /\ lifeCalls = <<"connect", "connect", "dispose", "disconnect">>
    /\ lifeLog = <<"connected", "disconnected">>
    /\ lifeLast.op = "disconnect"

(***************************************************************************)
(* C27 is stated over SpecOffer.                                           *)
(***************************************************************************)
\* The offers whose handling has ended: connections created by handleOffer
\* that no suspended call is working on.
C27_Handled ==
    {c \in DOMAIN pmConns :
        /\ pmConns[c].role = "answerer"
        /\ \A h \in pmHandling : h.conn # c}

\* C27 as stated: once the handling of an offer from P has ended, the peer
\* map holds for P the connection created for that offer, still open, and
\* exactly one answer targeted at P has been sent for it.
C27_AnswerAlwaysSent ==
    (pmLast # NoResult /\ pmLast.op \in {"resumed", "abandoned"}
        /\ pmLast.type = "answer") =>
        /\ pmLast.peer \in DOMAIN pmPeers
        /\ pmPeers[pmLast.peer] = pmLast.conn
        /\ ~pmConns[pmLast.conn].closed
        /\ Cardinality(AnswersFor(pmSent, pmLast.conn)) = 1

\* C27, amended: on receiving an offer from P the manager at once closes
\* the connection it held for P and maps P to a connection created in that
\* step; no peer ever has two open connections, and the one in the map is
\* open.  When the answer has been created, exactly one answer targeted at
\* P is sent if the manager is attached at that moment and none otherwise;
\* no offer is ever answered twice, and none while its handling is
\* suspended or after it was abandoned.
C27_OfferReplacesAndAnswers ==
    /\ (pmLast # NoResult /\ pmLast.op = "offer") =>
           /\ \A c \in pmLast.held : pmConns[c].closed
           /\ pmLast.conn = Len(pmConns)
           /\ pmLast.conn \notin pmLast.held
           /\ pmPeers[pmLast.peer] = pmLast.conn
           /\ AnswersFor(pmSent, pmLast.conn) = {}
    /\ \A c, d \in DOMAIN pmConns :
           (/\ pmConns[c].peer = pmConns[d].peer
            /\ ~pmConns[c].closed
            /\ ~pmConns[d].closed) => c = d
    /\ \A p \in DOMAIN pmPeers :
           /\ pmConns[pmPeers[p]].peer = p
           /\ ~pmConns[pmPeers[p]].closed
    /\ (pmLast # NoResult /\ pmLast.op = "resumed" /\ pmLast.type = "answer") =>
           /\ Cardinality(AnswersFor(pmSent, pmLast.conn)) =
                  IF pmLast.attached THEN 1 ELSE 0
           /\ \A i \in AnswersFor(pmSent, pmLast.conn) :
                  pmSent[i].targetId = pmLast.peer
           /\ ~pmLast.closed =>
                  /\ pmLast.attached
                  /\ pmPeers[pmLast.peer] = pmLast.conn
    /\ \A c \in DOMAIN pmConns :
           /\ Cardinality(AnswersFor(pmSent, c)) <= 1
           /\ c \notin C27_Handled => AnswersFor(pmSent, c) = {}
    /\ (pmLast # NoResult /\ pmLast.op = "abandoned") =>
           AnswersFor(pmSent, pmLast.conn) = {}

\* An offer from a peer for which a connection was held has been handled
\* to the end while attached: the old connection is closed and the answer
\* was sent from the new one, which the peer map holds.
C27_Witness ==
    /\ pmLast # NoResult
    /\ pmLast.op = "resumed"
    /\ pmLast.type = "answer"
    /\ pmLast.attached
    /\ ~pmLast.closed
    /\ \E c \in DOMAIN pmConns :
          /\ c < pmLast.conn
          /\ pmConns[c].peer = pmLast.peer
          /\ pmConns[c].closed
    /\ Cardinality(AnswersFor(pmSent, pmLast.conn)) = 1

(***************************************************************************)
(* C28 is stated over SpecWs.                                              *)
(***************************************************************************)
\* The reconnect timers that are set and have not fired.
C28_PendingTimers == {t \in DOMAIN wsTimers : wsTimers[t]}

\* C28: the reconnect attempts made since the last successful open,
\* together with those still scheduled, never exceed maxReconnectAttempts,
\* so that after maxReconnectAttempts attempts none is scheduled any more;
\* and a socket that opens sets the count of attempts back to zero.
C28_ReconnectBounded ==
    /\ wsTries + Cardinality(C28_PendingTimers) <= maxReconnectAttempts
    /\ wsAttempts <= maxReconnectAttempts
    /\ (wsLast # NoResult /\ wsLast.op = "open") =>
           /\ wsAttempts = 0
           /\ wsTries = 0
    /\ (wsLast # NoResult /\ wsLast.op = "close"
            /\ wsLast.tries = maxReconnectAttempts) =>
           /\ wsTimers = wsLast.pre.timers
           /\ wsAttempts = wsLast.pre.attempts

\* A socket opened after a failed attempt and dropped, and then
\* maxReconnectAttempts further attempts failed: the last of them closed
\* and nothing is scheduled.
C28_Witness ==
    /\ wsLast # NoResult
    /\ wsLast.op = "close"
    /\ wsTries = maxReconnectAttempts
    /\ C28_PendingTimers = {}
    /\ \A i \in DOMAIN wsSocks : wsSocks[i].state = "closed"
    /\ \E i \in DOMAIN wsSocks : i > 1 /\ wsSocks[i].opened
    /\ ~wsDisposed
    /\ pmAttached

(***************************************************************************)
(* C29 is stated over SpecJunk.                                            *)
(***************************************************************************)
\* C29: a data-channel text that does not parse, or whose type is none of
\* sync-request, sync-response and change, is ignored: nothing is thrown
\* out of the handler, the documents, the clock and the peers of the
\* engine stay as they were, no event is emitted and nothing is sent.
C29_JunkIgnored ==
    (netIn # NoResult /\ netIn.kind = "junk") =>
        /\ ~netIn.raised
        /\ netIn.after = netIn.docs
        /\ netIn.clockAfter = netIn.clock
        /\ netIn.peersAfter = netIn.peers
        /\ netIn.events = <<>>
        /\ \A q \in DOMAIN netIn.sent : netIn.sent[q] = <<>>

\* An engine that holds a document with an entry has received an object
\* of an unhandled type that names a document it does not hold.
C29_Witness ==
    /\ netIn # NoResult
    /\ netIn.kind = "junk"
    /\ JsonParse(netIn.message).ok
    /\ JsonParse(netIn.message).value # Null
    /\ "type" \in DOMAIN JsonParse(netIn.message).value
    /\ \E d \in DOMAIN netIn.docs : netIn.docs[d] # EmptyMap
    /\ JsonParse(netIn.message).value.documentId \notin DOMAIN netIn.docs

(***************************************************************************)
(* C30 is stated over SpecRef.                                             *)
(***************************************************************************)
\* The greatest of the wall clock, the clock's time and the remote time.
C30_Greatest(op) ==
    CHOOSE m \in {op.wallClock, op.before.time, op.remote.time} :
        \A x \in {op.wallClock, op.before.time, op.remote.time} : m >= x

\* C30: now() returns (wall, 0) when the wall clock is past the clock's
\* time and (time, counter + 1) otherwise, so that two calls at one wall
\* clock on a new clock return counters 0 and 1; receive(remote) returns
\* the greatest m of wall clock, time and remote time, with the counter
\* max(counter, remote.counter) + 1 when m is both the time and the remote
\* time, counter + 1 when m is the time only, remote.counter + 1 when m is
\* the remote time only, and 0 when the wall clock is strictly the
\* greatest; the node id returned is the clock's own, and the clock keeps
\* what it returned.
C30_ReferenceRule ==
    hlcOp # NoResult =>
        /\ hlcLast.nodeId = hlcOp.before.nodeId
        /\ hlc = hlcLast
        /\ hlcOp.op = "now" =>
               /\ hlcOp.wallClock > hlcOp.before.time =>
                      hlcLast.time = hlcOp.wallClock /\ hlcLast.counter = 0
               /\ hlcOp.wallClock <= hlcOp.before.time =>
                      /\ hlcLast.time = hlcOp.before.time
                      /\ hlcLast.counter = hlcOp.before.counter + 1
               /\ (/\ hlcOp.prev # NoResult
                   /\ hlcOp.prev.prev = NoResult
                   /\ hlcOp.prev.op = "now"
                   /\ hlcOp.prev.wallClock = hlcOp.wallClock
                   /\ hlcOp.wallClock > 0) =>
                      /\ hlcPrev = {Timestamp(hlcOp.wallClock, 0, hlc.nodeId)}
                      /\ hlcLast = Timestamp(hlcOp.wallClock, 1, hlc.nodeId)
        /\ hlcOp.op = "receive" =>
               LET m == C30_Greatest(hlcOp)
                   isTime == m = hlcOp.before.time
                   isRemote == m = hlcOp.remote.time
               IN /\ hlcLast.time = m
                  /\ (isTime /\ isRemote) =>
                         hlcLast.counter =
                             (IF hlcOp.before.counter >= hlcOp.remote.counter
                              THEN hlcOp.before.counter
                              ELSE hlcOp.remote.counter) + 1
                  /\ (isTime /\ ~isRemote) =>
                         hlcLast.counter = hlcOp.before.counter + 1
                  /\ (isRemote /\ ~isTime) =>
                         hlcLast.counter = hlcOp.remote.counter + 1
                  /\ (~isTime /\ ~isRemote) =>
                         /\ hlcLast.counter = 0
                         /\ hlcOp.wallClock > hlcOp.before.time
                         /\ hlcOp.wallClock > hlcOp.remote.time

\* A receive of a remote timestamp level with the clock's time and ahead
\* of the wall clock, whose counter is ahead of the clock's own, which is
\* itself past zero.
C30_Witness ==
    /\ hlcOp # NoResult
    /\ hlcOp.op = "receive"
    /\ hlcOp.before.time = hlcOp.remote.time
    /\ hlcOp.wallClock < hlcOp.before.time
    /\ hlcOp.before.counter > 0
    /\ hlcOp.remote.counter > hlcOp.before.counter
    /\ hlcLast.counter = hlcOp.remote.counter + 1

(***************************************************************************)
(* C31 is stated over SpecShared.                                          *)
(***************************************************************************)
\* What a replica of node "b" with no entries holds for a key after being
\* passed the two changes in the given order.
C31_Replica(first, second) ==
    LET one == MapApplyRemote(EmptyMap, HLCNew(IdB), 0, first)
    IN MapApplyRemote(one.entries, one.clock, 0, second).entries

\* C31: applyRemote and merge leave the shared clock strictly past what it
\* was and past every timestamp they were passed, accepted or not; the
\* timestamp of every local set or delete compares strictly greater than
\* every timestamp passed before to applyRemote or merge on any document
\* of the engine, and a replica given such a change and the local write
\* for the same key, in either order, ends with the local write.
C31_LocalWriteAfterRemoteWins ==
    shLast # NoResult =>
        /\ shLast.op \in {"applyRemote", "merge"} =>
               /\ compareTimestamps(shClock, shLast.clock) > 0
               /\ \A c \in shLast.passed :
                      compareTimestamps(shClock, c.timestamp) > 0
        /\ \A c \in shSeen : compareTimestamps(shClock, c.timestamp) > 0
        /\ (shLast.op \in {"set", "delete"} /\ shLast.ret # Null) =>
               \A c \in shSeen :
                   /\ compareTimestamps(shLast.ret.timestamp, c.timestamp) > 0
                   /\ c.key = shLast.ret.key =>
                          /\ C31_Replica(c, shLast.ret)[c.key] = EntryOf(shLast.ret)
                          /\ C31_Replica(shLast.ret, c)[c.key] = EntryOf(shLast.ret)

\* A change stamped ahead of the wall clock was passed to one document,
\* which now holds a newer entry for its key, and the last call was a set
\* on the other document, stamped at the time the clock took from it.
C31_Witness ==
    /\ shLast # NoResult
    /\ shLast.op = "set"
    /\ shLast.clock.time = 2
    /\ shLast.ret.timestamp.time = 2
    /\ \E c \in shSeen :
          /\ c.timestamp = Timestamp(2, 1, IdB)
          /\ \E d \in DOMAIN shDocs :
                /\ d # shLast.documentId
                /\ c.key \in DOMAIN shDocs[d]
                /\ compareTimestamps(shDocs[d][c.key].timestamp, c.timestamp) > 0

(***************************************************************************)
(* SpecBoot: the bootstrap exchange started by one side only.  Engines "a" *)
(* and "b" are connected with open data channels; "a" holds the document   *)
(* "todos", "b" holds its own version of it or has not created it, and the *)
(* only message in flight is a's sync-request for it (handlePeerConnected  *)
(* on a's side).  The steps deliver the messages of the exchange.          *)
(***************************************************************************)
BootDoc == "todos"
BootKeys == {"todo-1", "todo-2"}
BootEntries == {Entry("X", Timestamp(1, 0, IdAB), FALSE),
                Entry("Y", Timestamp(2, 0, IdAB), FALSE),
                Entry("X", Timestamp(2, 0, IdA), TRUE)}
BootMaps == UNION {[ks -> BootEntries] : ks \in SUBSET BootKeys}

BootInit ==
    /\ engConnected = [e \in NetEngines |-> TRUE]
    /\ \E mine \in BootMaps :
       \E theirs \in {EmptyMap} \cup {Put(EmptyMap, BootDoc, m) : m \in BootMaps} :
           /\ engDocs = [e \in NetEngines |->
                            IF e = IdA THEN Put(EmptyMap, BootDoc, mine)
                            ELSE theirs]
           /\ chan = [c \in Links(NetEngines) |->
                         IF c = <<IdA, IdB>>
                         THEN <<SyncRequest(BootDoc, MapGetKnownEntries(mine))>>
                         ELSE <<>>]
    /\ engClock = [e \in NetEngines |-> Timestamp(2, 1, e)]
    /\ hubRoom = NetEngines
    /\ peers = [e \in NetEngines |-> [p \in NetEngines \ {e} |-> ConnOpen]]
    /\ pending = {}
    /\ offersSent = [e \in NetEngines |->
                        Cardinality({p \in NetEngines : StrGreater(e, p)})]
    /\ netLast = NoResult
    /\ netOps = 0
    /\ engHeld = [e \in NetEngines |-> DOMAIN engDocs[e]]
    /\ netIn = NoResult
    /\ netFaults = 0
    /\ CmpIdle
    /\ HlcIdle
    /\ MapIdle
    /\ RepIdle
    /\ LifeIdle
    /\ PmIdle
    /\ WsIdle
    /\ ShIdle
    /\ PcIdle

BootNext == DeliverData

SpecBoot == BootInit /\ [][BootNext]_vars

\* No message of the exchange is left in flight.
BootQuiet == \A c \in Links(NetEngines) : chan[c] = <<>>

\* The entries engine e holds for the document, none if it has not created it.
BootEntriesOf(e) ==
    IF BootDoc \in DOMAIN engDocs[e] THEN engDocs[e][BootDoc] ELSE EmptyMap

(***************************************************************************)
(* C32: if only "a" sends a sync-request for the document to a connected   *)
(* "b", then once every message triggered by that request has been         *)
(* delivered both hold identical entries for it, also when "b" held an     *)
(* older version of a key of "a" and when "b" had not created the          *)
(* document.                                                               *)
(***************************************************************************)
C32_BootstrapSymmetric ==
    BootQuiet => BootEntriesOf(IdB) = BootEntriesOf(IdA)

\* The same, for the starts in which "b" has the document and every key of
\* "a" in it, so that the missing-document case is set aside.
C32_OlderVersionCase ==
    (BootQuiet /\ BootDoc \in DOMAIN engDocs[IdB]
        /\ DOMAIN engDocs[IdA][BootDoc] \subseteq DOMAIN engDocs[IdB][BootDoc]) =>
        engDocs[IdB][BootDoc] = engDocs[IdA][BootDoc]

(***************************************************************************)
(* C33: a delete and a write on the same key are decided by timestamp      *)
(* alone.  After applyRemote on a key the map holds: a tombstone newer     *)
(* than the live entry makes get(key) absent and drops the key from        *)
(* getAll(); a write older than the tombstone held is rejected and the key *)
(* stays absent; a write newer than the tombstone makes the key live       *)
(* again.  In every state getAll() is exactly the keys whose entry is not  *)
(* deleted, each mapped to its entry's value.                              *)
(***************************************************************************)
C33_Older(a, b) == compareTimestamps(a, b) < 0

C33_DeleteWriteByTimestamp ==
    /\ DOMAIN MapGetAll(mapEntries) =
           {k \in DOMAIN mapEntries : ~mapEntries[k].deleted}
    /\ \A k \in DOMAIN mapEntries :
           IF mapEntries[k].deleted
           THEN MapGet(mapEntries, k) = Null
           ELSE /\ MapGet(mapEntries, k) = mapEntries[k].value
                /\ MapGetAll(mapEntries)[k] = mapEntries[k].value
    /\ (/\ mapLast # NoResult
        /\ mapLast.op = "applyRemote"
        /\ mapLast.arg.key \in DOMAIN mapLast.pre) =>
           LET change == mapLast.arg
               key == change.key
               held == mapLast.pre[key]
           IN /\ (/\ ~held.deleted
                  /\ change.deleted
                  /\ C33_Older(held.timestamp, change.timestamp)) =>
                     /\ mapLast.ret
                     /\ MapGet(mapEntries, key) = Null
                     /\ key \notin DOMAIN MapGetAll(mapEntries)
              /\ (/\ held.deleted
                  /\ ~change.deleted
                  /\ C33_Older(change.timestamp, held.timestamp)) =>
                     /\ ~mapLast.ret
                     /\ mapEntries = mapLast.pre
                     /\ MapGet(mapEntries, key) = Null
                     /\ key \notin DOMAIN MapGetAll(mapEntries)
              /\ (/\ held.deleted
                  /\ ~change.deleted
                  /\ C33_Older(held.timestamp, change.timestamp)) =>
                     /\ mapLast.ret
                     /\ MapGet(mapEntries, key) = change.value
                     /\ MapGetAll(mapEntries)[key] = change.value

\* A key set locally was deleted by a newer remote tombstone while another
\* key stays live.
C33_Witness ==
    /\ mapLast # NoResult
    /\ mapLast.op = "applyRemote"
    /\ mapLast.arg.deleted
    /\ mapLast.arg.key \in DOMAIN mapLast.pre
    /\ ~mapLast.pre[mapLast.arg.key].deleted
    /\ mapLast.pre[mapLast.arg.key].timestamp.nodeId = SelfId
    /\ C33_Older(mapLast.pre[mapLast.arg.key].timestamp, mapLast.arg.timestamp)
    /\ mapEntries[mapLast.arg.key].deleted

\* A write newer than the tombstone held brought the key back.
C33_WitnessRevived ==
    /\ mapLast # NoResult
    /\ mapLast.op = "applyRemote"
    /\ ~mapLast.arg.deleted
    /\ mapLast.arg.key \in DOMAIN mapLast.pre
    /\ mapLast.pre[mapLast.arg.key].deleted
    /\ ~mapEntries[mapLast.arg.key].deleted
    /\ mapLast.arg.key \in DOMAIN MapGetAll(mapEntries)

\* A write older than the tombstone held was rejected.
C33_WitnessRejected ==
    /\ mapLast # NoResult
    /\ mapLast.op = "applyRemote"
    /\ ~mapLast.arg.deleted
    /\ mapLast.arg.key \in DOMAIN mapLast.pre
    /\ mapLast.pre[mapLast.arg.key].deleted
    /\ C33_Older(mapLast.arg.timestamp, mapLast.pre[mapLast.arg.key].timestamp)
    /\ ~mapLast.ret

(***************************************************************************)
(* C34: glare never occurs.  Every `offer` signaling message the manager   *)
(* has ever sent goes from its own id to a target id that is               *)
(* lexicographically smaller, under any order of joins, leaves and         *)
(* re-joins; the peer of a pair with the smaller id therefore has no offer *)
(* among the messages it sent to the other.                                *)
(***************************************************************************)
C34_Offers == {i \in DOMAIN pmSent : pmSent[i].type = "offer"}

C34_NoGlare ==
    /\ \A i \in C34_Offers : StrGreater(SelfId, pmSent[i].targetId)
    /\ \A i \in DOMAIN pmSent :
           StrGreater(pmSent[i].targetId, SelfId) => pmSent[i].type = "answer"

\* The peer "a" joined, left and joined again, and the manager sent it an
\* offer each time.
C34_Witness ==
    /\ Cardinality({i \in C34_Offers : pmSent[i].targetId = IdA}) = 2
    /\ pmLast.op = "resumed"

(***************************************************************************)
(* SpecPc: one PeerConnection (connection.ts) with the calls made on it    *)
(* and the events its RTCPeerConnection and its data channel deliver.      *)
(* The connection has one data channel, the one createOffer creates on the *)
(* offering side or the one the remote offerer created, announced by       *)
(* ondatachannel.  Until close() the channel's events come in the order of *)
(* its readyState; events already under way when close() is called may     *)
(* still arrive afterwards, in any order.  pcLog keeps, for every call and *)
(* event, whether close() had been called before and the callbacks it      *)
(* invoked.                                                                *)
(***************************************************************************)
MaxPcSteps == 5
RtcStates == {"new", "connecting", "connected", "disconnected", "failed",
              "closed", "unknown"}

\* The fields of a new PeerConnection: state, whether the handlers set on
\* this.pc are in place, whether this.dc is set, the data channel (whether
\* its handlers are in place, its readyState) and whether close() was called.
PeerConnectionNew ==
    [state |-> "new", handlers |-> TRUE, dc |-> FALSE, channel |-> NoResult,
     closed |-> FALSE]

Callback(name, arg) == [callback |-> name, arg |-> arg]

mapState(rtcState) ==
    IF rtcState \in {"new", "connecting", "connected", "disconnected",
                     "failed", "closed"}
    THEN rtcState
    ELSE "new"

SetupDataChannel(conn) ==
    [conn EXCEPT !.dc = TRUE,
                 !.channel = [bound |-> TRUE, ready |-> "connecting"]]

PeerConnectionClose_keepsChannelHandlers(conn) ==
    [conn EXCEPT !.handlers = FALSE, !.state = "closed", !.closed = TRUE]

\* close()
PeerConnectionClose(conn) ==
    LET released == IF conn.dc
                    THEN [conn EXCEPT !.channel = [bound |-> FALSE,
                                                   ready |-> "closed"],
                                      !.dc = FALSE]
                    ELSE conn
    IN [released EXCEPT !.handlers = FALSE, !.state = "closed",
                        !.closed = TRUE]

PcInit ==
    /\ pc = PeerConnectionNew
    /\ pcLog = <<>>
    /\ pcSteps = 0
    /\ CmpIdle
    /\ HlcIdle
    /\ MapIdle
    /\ RepIdle
    /\ NetIdle
    /\ LifeIdle
    /\ PmIdle
    /\ WsIdle
    /\ ShIdle

PcStep(event, next, calls) ==
    /\ pcSteps < MaxPcSteps
    /\ pc' = next
    /\ pcLog' = Append(pcLog, [event |-> event, closed |-> pc.closed,
                               calls |-> calls])
    /\ pcSteps' = pcSteps + 1
    /\ UNCHANGED <<cmpVars, hlcVars, mapVars, repVars, netVars, lifeVars, pmVars, wsVars, shVars>>

\* createOffer(), to its first await; on a closed RTCPeerConnection
\* createDataChannel throws.
CreateOffer ==
    /\ ~pc.closed
    /\ pc.channel = NoResult
    /\ PcStep("createOffer", SetupDataChannel(pc), <<>>)

\* pc.onicecandidate
OnIceCandidate ==
    \E candidate \in BOOLEAN :
        PcStep("pc.onicecandidate", pc,
               IF pc.handlers /\ candidate
               THEN <<Callback("onIceCandidate", "candidate")>>
               ELSE <<>>)

\* pc.onconnectionstatechange
OnConnectionStateChange ==
    \E rtcState \in RtcStates :
        IF pc.handlers /\ mapState(rtcState) # pc.state
        THEN PcStep("pc.onconnectionstatechange",
                    [pc EXCEPT !.state = mapState(rtcState)],
                    <<Callback("onStateChange", mapState(rtcState))>>)
        ELSE PcStep("pc.onconnectionstatechange", pc, <<>>)

\* pc.ondatachannel, for the channel the remote offerer created
OnDataChannel ==
    /\ pc.channel = NoResult
    /\ PcStep("pc.ondatachannel",
              IF pc.handlers THEN SetupDataChannel(pc) ELSE pc, <<>>)

\* channel.onopen
ChannelOnOpen ==
    /\ pc.channel # NoResult
    /\ \E late \in {pc.closed} :
           /\ late \/ pc.channel.ready = "connecting"
           /\ LET opened == IF late THEN pc
                            ELSE [pc EXCEPT !.channel.ready = "open"]
              IN IF pc.channel.bound
                 THEN PcStep("channel.onopen",
                             [opened EXCEPT !.state = "connected"],
                             <<Callback("onStateChange", "connected")>>)
                 ELSE PcStep("channel.onopen", opened, <<>>)

\* channel.onmessage; parsed tells whether JSON.parse accepts event.data
ChannelOnMessage ==
    /\ pc.channel # NoResult
    /\ \E parsed \in BOOLEAN, late \in {pc.closed} :
           /\ late \/ pc.channel.ready = "open"
           /\ PcStep("channel.onmessage", pc,
                     IF pc.channel.bound /\ parsed
                     THEN <<Callback("onData", "message")>>
                     ELSE <<>>)

\* channel.onclose
ChannelOnClose ==
    /\ pc.channel # NoResult
    /\ \E late \in {pc.closed} :
           /\ late \/ pc.channel.ready # "closed"
           /\ LET shut == [pc EXCEPT !.channel.ready = "closed"]
              IN IF pc.channel.bound /\ pc.state # "closed"
                 THEN PcStep("channel.onclose",
                             [shut EXCEPT !.state = "disconnected"],
                             <<Callback("onStateChange", "disconnected")>>)
                 ELSE PcStep("channel.onclose", shut, <<>>)

Close == PcStep("close", PeerConnectionClose(pc), <<>>)

PcNext ==
    \/ CreateOffer
    \/ OnIceCandidate
    \/ OnConnectionStateChange
    \/ OnDataChannel
    \/ ChannelOnOpen
    \/ ChannelOnMessage
    \/ ChannelOnClose
    \/ Close

SpecPc == PcInit /\ [][PcNext]_vars

(***************************************************************************)
(* C35: `closed` is terminal for a PeerConnection.  Once close() has been  *)
(* called its state is `closed` in every later state, and no call or event *)
(* that comes after close() invokes onData, onStateChange or               *)
(* onIceCandidate, whatever transport or channel events arrive.            *)
(***************************************************************************)
C35_ClosedIsTerminal ==
    /\ pc.closed => pc.state = "closed"
    /\ \A i \in DOMAIN pcLog : pcLog[i].closed => pcLog[i].calls = <<>>

\* The channel opened and reported `connected`, close() was called, and a
\* message and a state change of the transport arrived afterwards.
C35_Witness ==
    /\ pc.closed
    /\ \E i, j, k, l \in DOMAIN pcLog :
          /\ i < j /\ j < k /\ j < l
          /\ pcLog[i].event = "channel.onopen"
          /\ pcLog[i].calls = <<Callback("onStateChange", "connected")>>
          /\ pcLog[j].event = "close"
          /\ pcLog[k].event = "channel.onmessage"
          /\ pcLog[l].event = "pc.onconnectionstatechange"

(***************************************************************************)
(* C36: the Peer Manager never leaks a live connection.  In every state    *)
(* each PeerConnection it has created is the current entry of its peer id  *)
(* in the peer map or has been closed, under any interleaving of join,     *)
(* offer, leave and detach handling; after detach() the map is empty,      *)
(* every connection that was in it is closed and the room has been left.   *)
(***************************************************************************)
C36_Current(c) ==
    /\ pmConns[c].peer \in DOMAIN pmPeers
    /\ pmPeers[pmConns[c].peer] = c

C36_NoLeakedConnection ==
    /\ \A c \in DOMAIN pmConns : C36_Current(c) \/ pmConns[c].closed
    /\ (pmLast # NoResult /\ pmLast.op = "detach") =>
           /\ pmPeers = <<>>
           /\ \A c \in DOMAIN pmConns : pmConns[c].closed
           /\ ~pmAttached
    /\ ~pmAttached => \A c \in DOMAIN pmConns : pmConns[c].closed

\* detach() ran while the map held one connection created on a join and
\* one created on an offer, after an earlier connection had been replaced.
C36_Witness ==
    /\ pmLast # NoResult
    /\ pmLast.op = "detach"
    /\ Len(pmConns) = 3
    /\ \E c, d \in DOMAIN pmConns :
          /\ pmConns[c].role = "offerer"
          /\ pmConns[d].role = "answerer"
          /\ pmConns[c].peer # pmConns[d].peer

(***************************************************************************)
(* C37 is stated over SpecWs.                                              *)
(***************************************************************************)
\* join() was the last call, made when every reconnect attempt allowed had
\* been made and nothing was scheduled any more.
C37_JoinedAfterExhaustion ==
    /\ wsLast # NoResult
    /\ wsLast.op = "join"
    /\ wsLast.tries = maxReconnectAttempts
    /\ wsLast.pre.attempts = maxReconnectAttempts
    /\ \A t \in DOMAIN wsLast.pre.timers : ~wsLast.pre.timers[t]

\* C37: giving up on reconnection lasts only until a fresh join().  When
\* the socket that join() opened after the attempts were exhausted fails,
\* a reconnect is scheduled again.
C37_FreshJoinReconnects ==
    [][(C37_JoinedAfterExhaustion /\ wsLast'.op = "close") =>
           \E t \in DOMAIN wsTimers' : wsTimers'[t]]_vars

\* The same join() does connect: it leaves a new socket connecting.
C37_JoinConnects ==
    (C37_JoinedAfterExhaustion /\ ~wsCtorThrows) =>
        /\ wsCur = Len(wsSocks)
        /\ Len(wsSocks) = Len(wsLast.pre.socks) + 1
        /\ wsSocks[wsCur].state = "connecting"

(***************************************************************************)
(* SpecHandshake: the anti-entropy handshake of two engines whose data     *)
(* channels have just opened.  Each holds its own version of the document  *)
(* or has not created it, and each has sent the sync-requests of           *)
(* handlePeerConnected.  The steps deliver the messages; a message in      *)
(* flight on an open channel is eventually delivered.                      *)
(***************************************************************************)
HandshakeDocs == {EmptyMap} \cup {Put(EmptyMap, BootDoc, m) : m \in BootMaps}

HandshakeInit ==
    /\ engConnected = [e \in NetEngines |-> TRUE]
    /\ engDocs \in [NetEngines -> HandshakeDocs]
    /\ engClock = [e \in NetEngines |-> Timestamp(2, 1, e)]
    /\ hubRoom = NetEngines
    /\ peers = [e \in NetEngines |-> [p \in NetEngines \ {e} |-> ConnOpen]]
    /\ pending = {}
    /\ chan = HandlePeerConnected(
                  HandlePeerConnected([c \in Links(NetEngines) |-> <<>>],
                                      peers, engDocs, IdA, IdB),
                  peers, engDocs, IdB, IdA)
    /\ offersSent = [e \in NetEngines |->
                        Cardinality({p \in NetEngines : StrGreater(e, p)})]
    /\ netLast = NoResult
    /\ netOps = 0
    /\ engHeld = [e \in NetEngines |-> DOMAIN engDocs[e]]
    /\ netIn = NoResult
    /\ netFaults = 0
    /\ CmpIdle
    /\ HlcIdle
    /\ MapIdle
    /\ RepIdle
    /\ LifeIdle
    /\ PmIdle
    /\ WsIdle
    /\ ShIdle
    /\ PcIdle

HandshakeNext == DeliverData

SpecHandshake ==
    HandshakeInit /\ [][HandshakeNext]_vars /\ WF_vars(DeliverData)

\* The sync-request and sync-response messages in flight; one direction
\* carries at most the peer's own request together with the response and
\* the counter request to the other's.
C38_InFlight ==
    {<<c, i>> \in Links(NetEngines) \X (1..3) :
        i <= Len(chan[c]) /\ chan[c][i].type \in {"sync-request", "sync-response"}}

(***************************************************************************)
(* C38: the anti-entropy handshake terminates.  For any document contents  *)
(* of two connected engines, the exchange of sync-request and              *)
(* sync-response messages started by the peers becoming connected reaches  *)
(* a state with no sync message in flight and stays there, and never has   *)
(* more than three messages in flight in one direction: requests and       *)
(* counter-requests do not ping-pong forever.                              *)
(***************************************************************************)
C38_HandshakeTerminates ==
    /\ [](\A c \in Links(NetEngines) : Len(chan[c]) <= 3)
    /\ <>[](C38_InFlight = {})

\* A sync-request was answered with a sync-response and a counter request.
C38_Witness ==
    /\ netIn # NoResult
    /\ netIn.message.type = "sync-request"
    /\ Len(netIn.sent[netIn.from]) = 2
    /\ netIn.sent[netIn.from][2].type = "sync-request"

(***************************************************************************)
(* C39: handling an inbound `change` or `sync-response` message never      *)
(* makes the engine send any message, to the sender or to any other peer:  *)
(* remote changes are applied locally only.  Every `change` message in     *)
(* flight therefore carries changes stamped by the engine that sends it,   *)
(* one hop from where they were made.                                      *)
(***************************************************************************)
C39_NoForwarding ==
    /\ HandledData({"sync-response", "change"}) =>
           \A q \in DOMAIN netIn.sent : netIn.sent[q] = <<>>
    /\ \A c \in DOMAIN chan :
           \A i \in DOMAIN chan[c] :
               chan[c][i].type = "change" =>
                   \A j \in DOMAIN chan[c][i].payload :
                       chan[c][i].payload[j].timestamp.nodeId = c[1]

\* An engine with two connected peers applied a change it received from
\* one of them, and a sync-response.
C39_Witness ==
    /\ HandledData({"change"})
    /\ Cardinality(DOMAIN netIn.sent) = 2
    /\ netIn.after # netIn.docs
    /\ netIn.events # <<>>

C39_WitnessResponse ==
    /\ HandledData({"sync-response"})
    /\ Cardinality(DOMAIN netIn.sent) = 2
    /\ netIn.after # netIn.docs

(***************************************************************************)
(* C40 is stated over SpecNet, in which no connection is ever lost or      *)
(* replaced.                                                               *)
(***************************************************************************)
\* Engine e handles a state that its connection to p reports and emits
\* `peer-joined` for p in this step.
C40_PeerJoinedNow(e, p) ==
    /\ netIn' # netIn
    /\ netIn'.kind = "state"
    /\ netIn'.engine = e
    /\ netIn'.from = p
    /\ netIn'.events = <<PeerJoined(p)>>

\* C40: connection events are reported once.  Between a connection's
\* creation and its next disconnection onPeerConnected, and with it the
\* `peer-joined` event and the round of initial sync-requests, fires at
\* most once for the peer: it does not fire for a connection whose state is
\* `connected` already.
C40_ReportedOnce ==
    [][\A e \in DOMAIN peers :
           \A p \in DOMAIN peers[e] :
               C40_PeerJoinedNow(e, p) => peers[e][p].state # "connected"]_vars

\* The other half of C40, stated over SpecFault: `peer-left` is emitted at
\* most once per disconnection, so it is not emitted for a connection whose
\* state is `disconnected` or `failed` already.
C40_PeerLeftOnce ==
    [][\A e \in DOMAIN peers :
           \A p \in DOMAIN peers[e] :
               (/\ netIn' # netIn
                /\ netIn'.kind = "state"
                /\ netIn'.engine = e
                /\ netIn'.from = p
                /\ netIn'.events = <<PeerLeft(p)>>) =>
                   peers[e][p].state \notin {"disconnected", "failed"}]_vars

====
